---- MODULE Spec2Model ----
(***************************************************************************)
(* A model of the yandex_gpt client SDK: the credential accessors of the   *)
(* configuration manager (config_manager.py), the completion client and    *)
(* its submit-and-poll loop (yandex_gpt.py) and the conversation thread    *)
(* with its run state machine (thread.py).                                 *)
(*                                                                         *)
(* Python values: None is the sentinel string None_; an Optional[str] is   *)
(* truthy when it is neither None nor the empty string.  An exception is a *)
(* record [type, msg] with str(e) = msg.  A Python list object lives in    *)
(* `lists` and is referred to by its identity, so that two names bound to  *)
(* the same list see each other's appends.                                 *)
(***************************************************************************)
EXTENDS Integers, Sequences, FiniteSets, TLC

VARIABLES
    environ,        \* os.environ: the environment variables the configuration managers read
    config_manager, \* the identity held by the client: model_type, catalog_id, iam_token, api_key
    lists,          \* Python list objects, by identity
    messages,       \* messages[th]: the list object self.messages of thread instance th refers to
    status,         \* status[th]: self.status, a dict {status, last_error_message}
    clock,          \* asyncio.get_event_loop().time(), in whole seconds
    pc,             \* pc[t]: where task t stands in the call it is executing
    entry,          \* entry[t]: the public operation task t is executing
    self,           \* self[t]: the thread instance the call of task t is on
    frame,          \* frame[t]: the local variables of the call
    returned,       \* returned[t]: the value the last call of t returned to its caller
    raised,         \* raised[t]: the exception the last call of t propagated to its caller
    obs             \* obs[t]: what an observer of the call records (requests issued, answers served)

vars == <<environ, config_manager, lists, messages, status, clock, pc, entry, self, frame,
          returned, raised, obs>>

-----------------------------------------------------------------------------
(* Bounds of the model *)

MaxTimeout == 3      \* a direct call of the poller draws its timeout from 0..MaxTimeout
MaxClock   == 4      \* and is observed until the clock reads MaxClock
MaxRunTimeout == 1   \* run_async draws its timeout from 0..MaxRunTimeout
MaxRunClock   == 2   \* and is observed until the clock reads MaxRunClock
MaxHistory == 2      \* calls are injected while the history is shorter than this

Tasks   == {1, 2}    \* callers (coroutines or OS threads)
Threads == {1, 2}    \* YandexGPTThread instances
ListIds == {0, 1, 2} \* 0: the list the caller passes to the constructors; th: the fresh list of thread th

None_ == "<None>"
Truthy(x) == x # None_ /\ x # ""
PyStr(x) == IF x = None_ THEN "None" ELSE x

Ok(v) == [ok |-> TRUE, value |-> v, exc |-> None_]
Exc(type, msg) == [type |-> type, msg |-> msg]
Raises(type, msg) == [ok |-> FALSE, value |-> None_, exc |-> Exc(type, msg)]

-----------------------------------------------------------------------------
(* config_manager.py: the derived accessors of an identity *)

available_models == <<"yandexgpt", "yandexgpt-lite", "summarization">>
available_models_repr == "['yandexgpt', 'yandexgpt-lite', 'summarization']"

InList(x, l) == \E i \in 1..Len(l) : l[i] = x

\* (mutant) the API key is preferred to the IAM token
authorization_field_key_first(cm) ==
    IF Truthy(cm.api_key) THEN Ok("Api-Key " \o cm.api_key)
    ELSE IF Truthy(cm.iam_token) THEN Ok("Bearer " \o cm.iam_token)
    ELSE Raises("ValueError", "IAM token or API key is not set")

completion_request_authorization_field(cm) ==
    IF Truthy(cm.iam_token) THEN Ok("Bearer " \o cm.iam_token)
    ELSE IF Truthy(cm.api_key) THEN Ok("Api-Key " \o cm.api_key)
    ELSE Raises("ValueError", "IAM token or API key is not set")

\* (mutant) the catalog id accessor insists on a credential
catalog_id_field_needs_credential(cm) ==
    IF ~Truthy(cm.iam_token) /\ ~Truthy(cm.api_key)
    THEN Raises("ValueError", "IAM token or API key is not set")
    ELSE IF Truthy(cm.catalog_id) THEN Ok(cm.catalog_id)
    ELSE Raises("ValueError", "Catalog ID is not set")

completion_request_catalog_id_field(cm) ==
    IF Truthy(cm.catalog_id) THEN Ok(cm.catalog_id)
    ELSE Raises("ValueError", "Catalog ID is not set")

\* (mutant) the model type is not looked up in available_models
model_type_uri_field_any_model(cm) ==
    IF Truthy(cm.model_type) /\ Truthy(cm.catalog_id)
    THEN Ok("gpt://" \o cm.catalog_id \o "/" \o cm.model_type \o "/latest")
    ELSE Raises("ValueError", "Model type or catalog ID is not set")

completion_request_model_type_uri_field(cm) ==
    IF ~InList(cm.model_type, available_models)
    THEN Raises("ValueError", "Model type " \o PyStr(cm.model_type)
                    \o " is not supported. Supported values: " \o available_models_repr)
    ELSE IF Truthy(cm.model_type) /\ Truthy(cm.catalog_id)
    THEN Ok("gpt://" \o cm.catalog_id \o "/" \o cm.model_type \o "/latest")
    ELSE Raises("ValueError", "Model type or catalog ID is not set")

Accessors == {"authorization", "catalog_id", "model_type_uri"}

Access(name, cm) ==
    CASE name = "authorization"  -> completion_request_authorization_field(cm)
      [] name = "catalog_id"     -> completion_request_catalog_id_field(cm)
      [] name = "model_type_uri" -> completion_request_model_type_uri_field(cm)

\* The identities the accessors are checked on: every field unset, empty or set.
ModelTypes == {None_, "", "yandexgpt", "yandexgpt-lite", "summarization", "gpt-4"}
CatalogIds == {None_, "", "cat1"}
IamTokens  == {None_, "", "t1"}
ApiKeys    == {None_, "", "k1"}

Identities ==
    [model_type : ModelTypes, catalog_id : CatalogIds, iam_token : IamTokens, api_key : ApiKeys]

\* The identities a thread is run with: a complete one, and one per way the header
\* or payload construction can fail.
Identity(m, c, i, k) == [model_type |-> m, catalog_id |-> c, iam_token |-> i, api_key |-> k]

ThreadIdentities ==
    { Identity("yandexgpt-lite", "cat1", "t1", "k1"),
      Identity("yandexgpt", "cat1", None_, None_),
      Identity("yandexgpt", None_, "t1", None_),
      Identity("gpt-4", "cat1", "t1", None_) }

-----------------------------------------------------------------------------
(* config_manager.py: the environment variables *)

\* os.environ as the managers see it: a variable that is not set reads as None.
Environ(m, c, k, i, u, sa, kid, pk, pk64) ==
    [YANDEX_GPT_MODEL_TYPE |-> m, YANDEX_GPT_CATALOG_ID |-> c, YANDEX_GPT_API_KEY |-> k,
     YANDEX_GPT_IAM_TOKEN |-> i, YANDEX_GPT_IAM_URL |-> u,
     YANDEX_GPT_SERVICE_ACCOUNT_ID |-> sa, YANDEX_GPT_SERVICE_ACCOUNT_KEY_ID |-> kid,
     YANDEX_GPT_PRIVATE_KEY |-> pk, YANDEX_GPT_PRIVATE_KEY_BASE64 |-> pk64]
EmptyEnviron == Environ(None_, None_, None_, None_, None_, None_, None_, None_, None_)

\* os.environ.get(name, default), os.getenv(name, default)
getenv(value, default) == IF value = None_ THEN default ELSE value

-----------------------------------------------------------------------------
(* yandex_gpt.py: headers and payload *)

\* _create_completion_request_headers: the dict literal evaluates the authorization
\* accessor, then the catalog id accessor; the first failure propagates.
_create_completion_request_headers(cm) ==
    LET a == completion_request_authorization_field(cm)
        c == completion_request_catalog_id_field(cm)
    IN  IF ~a.ok THEN a
        ELSE IF ~c.ok THEN c
        ELSE Ok([ContentType |-> "application/json", Authorization |-> a.value,
                 x_folder_id |-> c.value])

\* (mutant) the payload takes the model name as it is, without the lookup
create_completion_request_payload_unvalidated(cm, msgs) ==
    Ok([modelUri |-> "gpt://" \o PyStr(cm.catalog_id) \o "/" \o PyStr(cm.model_type) \o "/latest",
        messages |-> msgs])

\* _create_completion_request_payload: the model URI accessor is evaluated first.
_create_completion_request_payload(cm, msgs) ==
    LET u == completion_request_model_type_uri_field(cm)
    IN  IF ~u.ok THEN u
        ELSE Ok([modelUri |-> u.value, messages |-> msgs])

-----------------------------------------------------------------------------
(* The HTTP service, as the client sees it *)

NoExc == Exc(None_, None_)

\* A JSON body: a field the body does not carry is None (done: absent reads as False).
Body(id, done, error, response, result) ==
    [id |-> id, done |-> done, error |-> error, response |-> response, result |-> result]
NoBody == Body(None_, FALSE, None_, None_, None_)

\* An answer to one HTTP call: the client library raises exc, or hands back status and body.
Response(exc, code, body) == [exc |-> exc, status |-> code, body |-> body]
NoResponse == Response(NoExc, 0, NoBody)

StatusCodes == {200, 500}
Texts       == {"hello", "bye"}        \* result texts the backend generates
ErrorFields == {None_, "quota"}        \* the error field of a body
ConnectionErrors == {Response(Exc("ClientConnectionError", "Connection reset"), 0, NoBody)}

\* POST completionAsync: {id: <operation id>}, possibly without the id
SubmitResponses ==
    {Response(NoExc, c, Body(i, FALSE, None_, None_, None_)) : c \in StatusCodes, i \in {"op1", None_}}
        \cup ConnectionErrors
\* GET operations/<id>: {done, response: {alternatives: [...]}, error?}
PollResponses ==
    {Response(NoExc, c, NoBody) : c \in StatusCodes}
        \cup {Response(NoExc, 200, Body(None_, TRUE, e, x, None_)) :
                 e \in ErrorFields, x \in Texts \cup {None_}}
        \cup ConnectionErrors
\* POST completion: {result: {alternatives: [...]}} or {error: {...}}
SyncResponses ==
    {Response(NoExc, c, Body(None_, FALSE, e, None_, x)) :
         c \in StatusCodes, e \in ErrorFields, x \in Texts \cup {None_}}
        \cup ConnectionErrors

-----------------------------------------------------------------------------
(* Messages and thread instances *)

YandexGPTMessage(role, text) == [role |-> role, text |-> text]

Roles     == {"user", "tool"}          \* add_message takes any role string
UserTexts == {"hi"}
InitialLists == {<<>>, <<YandexGPTMessage("user", "hi")>>}

YandexGPTThreadStatus(s, m) == [status |-> s, last_error_message |-> m]

\* thread.py 45-48: a non-empty list given to the constructor is kept by reference,
\* otherwise the instance gets a fresh empty list.
InitMessages(given, given_id, given_list, fresh_id) ==
    IF given /\ Len(given_list) > 0 THEN given_id ELSE fresh_id

History(th) == lists[messages[th]]

-----------------------------------------------------------------------------
(* Calls: the frame of local variables, and what an observer records *)

\* The arguments of a manager's constructor; a signed assertion (JWT).
Args(m, c, cred) == [model_type |-> m, catalog_id |-> c, credential |-> cred]
NoArgs == Args(None_, None_, None_)
Jwt(kid, aud, iss, iat, exp) == [kid |-> kid, aud |-> aud, iss |-> iss, iat |-> iat, exp |-> exp]
NoJwt == Jwt(None_, None_, None_, 0, 0)

NoHeaders == [ContentType |-> None_, Authorization |-> None_, x_folder_id |-> None_]

EmptyFrame ==
    [timeout |-> 0, headers |-> NoHeaders, modelUri |-> None_,
     completion_request_id |-> None_, end_time |-> 0, wake |-> 0,
     completion_response |-> NoBody, completion_text |-> None_, e |-> NoExc,
     args |-> NoArgs, iam_url |-> None_, jwt_token |-> NoJwt]

EmptyObs ==
    [H0 |-> <<>>,           \* the history when the call began
     timeout |-> 0,         \* the timeout the call was given
     posts |-> 0,           \* POSTs issued by the call
     gets |-> 0,            \* GETs issued by the call
     sleeps |-> 0,          \* asyncio.sleep(1) calls begun by the call
     notdone |-> 0,         \* HTTP 200 answers with done false the call was served
     t0 |-> 0,              \* the clock when the poll loop was entered
     get_id |-> None_,      \* the operation id of the last GET
     resp |-> NoResponse,   \* the last answer served to the call
     post_url |-> None_,    \* the URL and the jwt field of the body of the last
     post_jwt |-> NoJwt,    \*   POST to the token endpoint
     failure |-> NoExc]     \* the exception raised on the completion path, if any

NoReturn == [text |-> None_, body |-> NoBody]
RetText(x) == [text |-> x, body |-> NoBody]
RetBody(b) == [text |-> None_, body |-> b]

RunEntries == {"run_async", "run_sync"}
IsAsync(t) == entry[t] \in {"run_async", "get_async_completion", "poll_async_completion"}
InRun(t)   == entry[t] \in RunEntries

\* Control moves to label with the frame fr.
Goto(t, label, fr, ob) ==
    /\ pc' = [pc EXCEPT ![t] = label]
    /\ frame' = [frame EXCEPT ![t] = fr]
    /\ obs' = [obs EXCEPT ![t] = ob]
    /\ UNCHANGED <<entry, returned, raised>>

\* The call returns v to its caller.
Return(t, v, ob) ==
    /\ pc' = [pc EXCEPT ![t] = "ready"]
    /\ entry' = [entry EXCEPT ![t] = "none"]
    /\ frame' = [frame EXCEPT ![t] = EmptyFrame]
    /\ obs' = [obs EXCEPT ![t] = ob]
    /\ returned' = [returned EXCEPT ![t] = v]
    /\ UNCHANGED raised

\* The call ends by propagating e to its caller.
Propagate(t, e, ob) ==
    /\ pc' = [pc EXCEPT ![t] = "ready"]
    /\ entry' = [entry EXCEPT ![t] = "none"]
    /\ frame' = [frame EXCEPT ![t] = EmptyFrame]
    /\ obs' = [obs EXCEPT ![t] = ob]
    /\ raised' = [raised EXCEPT ![t] = e]
    /\ UNCHANGED returned

-----------------------------------------------------------------------------
(* thread.py: add_message, run_async, run_sync *)

\* (mutant) run has no handler: the exception leaves the call
Throw_propagates(t, e, ob) == Propagate(t, e, [ob EXCEPT !.failure = e])

\* An exception raised on the completion path: inside run it is caught by
\* `except Exception` (thread.py 143, 189) and bound to e, the frames of the
\* functions it left being gone; a direct call propagates it.
Throw(t, e, ob) ==
    LET ob1 == [ob EXCEPT !.failure = e]
    IN  IF InRun(t)
        THEN Goto(t, "except", [EmptyFrame EXCEPT !.e = e], ob1)
        ELSE Propagate(t, e, ob1)

\* (mutant) the message is put in front of the history
add_message_front(th, role, text) ==
    lists' = [lists EXCEPT ![messages[th]] = <<YandexGPTMessage(role, text)>> \o @]

\* add_message (thread.py 70): one append to the list self.messages refers to.
add_message(th, role, text) ==
    lists' = [lists EXCEPT ![messages[th]] = Append(@, YandexGPTMessage(role, text))]

AddMessage(t, th, role, text) ==
    /\ pc[t] = "ready"
    /\ Len(History(th)) < MaxHistory
    /\ self' = [self EXCEPT ![t] = th]
    /\ add_message(th, role, text)
    /\ UNCHANGED <<environ, config_manager, messages, status, clock, pc, entry, frame,
                   returned, raised, obs>>

\* The caller invokes run_async(timeout=...) or run_sync() on thread instance th.
CallRun(t, th, kind, timeout) ==
    /\ pc[t] = "ready"
    /\ Len(History(th)) < MaxHistory
    /\ clock <= MaxRunClock
    /\ pc' = [pc EXCEPT ![t] = "guard"]
    /\ entry' = [entry EXCEPT ![t] = kind]
    /\ self' = [self EXCEPT ![t] = th]
    /\ frame' = [frame EXCEPT ![t] = [EmptyFrame EXCEPT !.timeout = timeout]]
    /\ obs' = [obs EXCEPT ![t] = [EmptyObs EXCEPT !.H0 = History(th), !.timeout = timeout]]
    /\ returned' = [returned EXCEPT ![t] = NoReturn]
    /\ raised' = [raised EXCEPT ![t] = NoExc]
    /\ UNCHANGED <<environ, config_manager, lists, messages, status, clock>>

\* (mutant) the guard lets every call through
RunGuard_unchecked(t) ==
    /\ pc[t] = "guard"
    /\ Goto(t, "set_running", frame[t], obs[t])
    /\ UNCHANGED <<environ, config_manager, lists, messages, status, clock, self>>

\* (mutant) the guard is a lock: it also rejects while another call on the instance
\* is between its own guard and its return
RunGuard_locked(t) ==
    /\ pc[t] = "guard"
    /\ IF \/ status[self[t]].status = "running"
          \/ \E u \in Tasks \ {t} : self[u] = self[t] /\ pc[u] \notin {"ready", "guard"}
       THEN Propagate(t, Exc("Exception", "Thread is already running"), EmptyObs)
       ELSE Goto(t, "set_running", frame[t], obs[t])
    /\ UNCHANGED <<environ, config_manager, lists, messages, status, clock, self>>

\* thread.py 128-129, 175-176: the guard; a running thread rejects the call.
RunGuard(t) ==
    /\ pc[t] = "guard"
    /\ IF status[self[t]].status = "running"
       THEN Propagate(t, Exc("Exception", "Thread is already running"), EmptyObs)
       ELSE Goto(t, "set_running", frame[t], obs[t])
    /\ UNCHANGED <<environ, config_manager, lists, messages, status, clock, self>>

\* (mutant) a run that passes the guard clears the last error
RunSetRunning_reset(t) ==
    /\ pc[t] = "set_running"
    /\ status' = [status EXCEPT ![self[t]] = YandexGPTThreadStatus("running", None_)]
    /\ Goto(t, "headers", frame[t], obs[t])
    /\ UNCHANGED <<environ, config_manager, lists, messages, clock, self>>

\* thread.py 131, 178
RunSetRunning(t) ==
    /\ pc[t] = "set_running"
    /\ status' = [status EXCEPT ![self[t]].status = "running"]
    /\ Goto(t, "headers", frame[t], obs[t])
    /\ UNCHANGED <<environ, config_manager, lists, messages, clock, self>>

\* (mutant) the reply is appended with the role of the last speaker
RunAppend_as_user(t) ==
    /\ pc[t] = "append"
    /\ add_message(self[t], "user", frame[t].completion_text)
    /\ Goto(t, "finally", EmptyFrame, obs[t])
    /\ UNCHANGED <<environ, config_manager, messages, status, clock, self>>

\* (mutant) the reply is appended to the history the run began with
RunAppend_to_snapshot(t) ==
    /\ pc[t] = "append"
    /\ lists' = [lists EXCEPT ![messages[self[t]]] =
                    Append(obs[t].H0, YandexGPTMessage("assistant", frame[t].completion_text))]
    /\ Goto(t, "finally", EmptyFrame, obs[t])
    /\ UNCHANGED <<environ, config_manager, messages, status, clock, self>>

\* thread.py 142, 188: self.add_message(role="assistant", text=completion_text)
RunAppend(t) ==
    /\ pc[t] = "append"
    /\ add_message(self[t], "assistant", frame[t].completion_text)
    /\ Goto(t, "finally", EmptyFrame, obs[t])
    /\ UNCHANGED <<environ, config_manager, messages, status, clock, self>>

\* thread.py 144, 190: self.status["status"] = "error"
RunExcept(t) ==
    /\ pc[t] = "except"
    /\ status' = [status EXCEPT ![self[t]].status = "error"]
    /\ Goto(t, "except_message", frame[t], obs[t])
    /\ UNCHANGED <<environ, config_manager, lists, messages, clock, self>>

\* (mutant) the type of the exception is recorded, not its description
RunExceptMessage_type(t) ==
    /\ pc[t] = "except_message"
    /\ status' = [status EXCEPT ![self[t]].last_error_message = frame[t].e.type]
    /\ Goto(t, "finally", EmptyFrame, obs[t])
    /\ UNCHANGED <<environ, config_manager, lists, messages, clock, self>>

\* thread.py 145, 191: self.status["last_error_message"] = str(e)
RunExceptMessage(t) ==
    /\ pc[t] = "except_message"
    /\ status' = [status EXCEPT ![self[t]].last_error_message = frame[t].e.msg]
    /\ Goto(t, "finally", EmptyFrame, obs[t])
    /\ UNCHANGED <<environ, config_manager, lists, messages, clock, self>>

\* (mutant) the status is settled in an else branch: only a run that did not fail
RunFinally_else(t) ==
    /\ pc[t] = "finally"
    /\ status' = [status EXCEPT ![self[t]].status = IF @ = "error" THEN @ ELSE "idle"]
    /\ Return(t, NoReturn, EmptyObs)
    /\ UNCHANGED <<environ, config_manager, lists, messages, clock, self>>

\* thread.py 147, 193: finally: self.status["status"] = "idle"; run returns None
\* (the observation of a run ends with the run).
RunFinally(t) ==
    /\ pc[t] = "finally"
    /\ status' = [status EXCEPT ![self[t]].status = "idle"]
    /\ Return(t, NoReturn, EmptyObs)
    /\ UNCHANGED <<environ, config_manager, lists, messages, clock, self>>

-----------------------------------------------------------------------------
(* yandex_gpt.py: get_async_completion, get_sync_completion and what they call *)

\* yandex_gpt.py 266, 329
BuildHeaders(t) ==
    /\ pc[t] = "headers"
    /\ LET h == _create_completion_request_headers(config_manager)
       IN  IF h.ok
           THEN Goto(t, "payload", [frame[t] EXCEPT !.headers = h.value], obs[t])
           ELSE Throw(t, h.exc, obs[t])
    /\ UNCHANGED <<environ, config_manager, lists, messages, status, clock, self>>

\* yandex_gpt.py 267-272, 330-335
BuildPayload(t) ==
    /\ pc[t] = "payload"
    /\ LET p == _create_completion_request_payload(config_manager, messages[self[t]])
       IN  IF p.ok
           THEN Goto(t, "post", [frame[t] EXCEPT !.modelUri = p.value.modelUri], obs[t])
           ELSE Throw(t, p.exc, obs[t])
    /\ UNCHANGED <<environ, config_manager, lists, messages, status, clock, self>>

\* yandex_gpt.py 60, 138: the POST is issued; the call waits for its answer.
Post(t) ==
    /\ pc[t] = "post"
    /\ Goto(t, "post_wait", frame[t], [obs[t] EXCEPT !.posts = @ + 1])
    /\ UNCHANGED <<environ, config_manager, lists, messages, status, clock, self>>

\* (mutant) the status of the answer is not looked at
send_async_completion_request_unchecked(r) ==
    IF r.exc # NoExc THEN [ok |-> FALSE, value |-> None_, exc |-> r.exc]
    ELSE IF r.body.id # None_ THEN Ok(r.body.id) ELSE Raises("KeyError", "'id'")

\* send_async_completion_request (yandex_gpt.py 63-67) on the answer r.
send_async_completion_request(r) ==
    IF r.exc # NoExc THEN [ok |-> FALSE, value |-> None_, exc |-> r.exc]
    ELSE IF r.status = 200
    THEN IF r.body.id # None_ THEN Ok(r.body.id) ELSE Raises("KeyError", "'id'")
    ELSE Raises("Exception", "Failed to send async request, status code: " \o ToString(r.status))

\* yandex_gpt.py 274-278: the answer to the submit arrives.
SubmitResponse(t, r) ==
    /\ pc[t] = "post_wait"
    /\ IsAsync(t)
    /\ LET id == send_async_completion_request(r)
           ob == [obs[t] EXCEPT !.resp = r]
       IN  IF id.ok
           THEN Goto(t, "poll_start", [frame[t] EXCEPT !.completion_request_id = id.value], ob)
           ELSE Throw(t, id.exc, ob)
    /\ UNCHANGED <<environ, config_manager, lists, messages, status, clock, self>>

\* (mutant) the body is handed back whatever the status
send_sync_completion_request_unchecked(r) ==
    IF r.exc # NoExc THEN [ok |-> FALSE, value |-> NoBody, exc |-> r.exc]
    ELSE Ok(r.body)

\* send_sync_completion_request (yandex_gpt.py 138-144) on the answer r.
send_sync_completion_request(r) ==
    IF r.exc # NoExc THEN [ok |-> FALSE, value |-> NoBody, exc |-> r.exc]
    ELSE IF r.status = 200 THEN Ok(r.body)
    ELSE Raises("Exception", "Failed to send sync request, status code: " \o ToString(r.status))

\* (mutant) a POST that failed is sent again
SyncResponse_retry(t, r) ==
    /\ pc[t] = "post_wait"
    /\ ~IsAsync(t)
    /\ LET b == send_sync_completion_request(r)
           ob == [obs[t] EXCEPT !.resp = r]
       IN  IF b.ok
           THEN Goto(t, "inspect", [EmptyFrame EXCEPT !.completion_response = b.value], ob)
           ELSE Goto(t, "post", frame[t], ob)
    /\ UNCHANGED <<environ, config_manager, lists, messages, status, clock, self>>

\* yandex_gpt.py 337-341: requests.post returns.
SyncResponse(t, r) ==
    /\ pc[t] = "post_wait"
    /\ ~IsAsync(t)
    /\ LET b == send_sync_completion_request(r)
           ob == [obs[t] EXCEPT !.resp = r]
       IN  IF b.ok
           THEN Goto(t, "inspect", [EmptyFrame EXCEPT !.completion_response = b.value], ob)
           ELSE Throw(t, b.exc, ob)
    /\ UNCHANGED <<environ, config_manager, lists, messages, status, clock, self>>

POLL_INTERVAL == 1   \* asyncio.sleep(1)

\* yandex_gpt.py 97: end_time = loop.time() + timeout
PollStart(t) ==
    /\ pc[t] = "poll_start"
    /\ Goto(t, "poll_check", [frame[t] EXCEPT !.end_time = clock + frame[t].timeout],
            [obs[t] EXCEPT !.t0 = clock])
    /\ UNCHANGED <<environ, config_manager, lists, messages, status, clock, self>>

\* (mutant) the deadline test is not strict
timed_out_nonstrict(now, end_time) == now >= end_time

\* (mutant) the loop has no deadline
timed_out_never(now, end_time) == FALSE

\* (mutant) the deadline test allows one second more
timed_out_late(now, end_time) == now > end_time + 1

\* yandex_gpt.py 100: the deadline test
timed_out(now, end_time) == now > end_time

\* yandex_gpt.py 100-101: the check at the head of each iteration
PollCheck(t) ==
    /\ pc[t] = "poll_check"
    /\ IF timed_out(clock, frame[t].end_time)
       THEN Throw(t, Exc("TimeoutError", "Operation timed out after "
                             \o ToString(frame[t].timeout) \o " seconds"), obs[t])
       ELSE Goto(t, "poll_get", frame[t], obs[t])
    /\ UNCHANGED <<environ, config_manager, lists, messages, status, clock, self>>

\* yandex_gpt.py 103: the GET of {poll_url}{operation_id} is issued.
PollGet(t) ==
    /\ pc[t] = "poll_get"
    /\ Goto(t, "poll_wait", frame[t],
            [obs[t] EXCEPT !.gets = @ + 1, !.get_id = frame[t].completion_request_id])
    /\ UNCHANGED <<environ, config_manager, lists, messages, status, clock, self>>

\* (mutant) a rejected GET is tried again after the wait
poll_answer_retry(r) ==
    IF r.exc # NoExc THEN [act |-> "raise", exc |-> r.exc]
    ELSE IF r.status = 200 /\ r.body.done THEN [act |-> "return", exc |-> NoExc]
    ELSE [act |-> "sleep", exc |-> NoExc]

\* (mutant) any HTTP 200 answer is returned, done or not
poll_answer_any_200(r) ==
    IF r.exc # NoExc THEN [act |-> "raise", exc |-> r.exc]
    ELSE IF r.status = 200 THEN [act |-> "return", exc |-> NoExc]
    ELSE [act |-> "raise",
          exc |-> Exc("Exception", "Failed to poll operation status, status code: "
                                       \o ToString(r.status))]

\* yandex_gpt.py 106-112 on the answer r: return the body, sleep and retry, or raise.
poll_answer(r) ==
    IF r.exc # NoExc THEN [act |-> "raise", exc |-> r.exc]
    ELSE IF r.status = 200
    THEN IF r.body.done THEN [act |-> "return", exc |-> NoExc]
         ELSE [act |-> "sleep", exc |-> NoExc]
    ELSE [act |-> "raise",
          exc |-> Exc("Exception", "Failed to poll operation status, status code: "
                                       \o ToString(r.status))]

\* poll_async_completion returns data: to its caller, or into get_async_completion (281).
PollReturn(t, data, ob) ==
    IF entry[t] = "poll_async_completion"
    THEN Return(t, RetBody(data), ob)
    ELSE Goto(t, "inspect", [EmptyFrame EXCEPT !.completion_response = data], ob)

\* yandex_gpt.py 103-112: the answer to the GET arrives.
PollResponse(t, r) ==
    /\ pc[t] = "poll_wait"
    /\ LET a == poll_answer(r)
           ob == [obs[t] EXCEPT !.resp = r,
                      !.notdone = IF r.exc = NoExc /\ r.status = 200 /\ ~r.body.done
                                  THEN @ + 1 ELSE @]
       IN  CASE a.act = "return" -> PollReturn(t, r.body, ob)
             [] a.act = "sleep"  ->
                    Goto(t, "sleeping", [frame[t] EXCEPT !.wake = clock + POLL_INTERVAL],
                         [ob EXCEPT !.sleeps = @ + 1])
             [] a.act = "raise"  -> Throw(t, a.exc, ob)
    /\ UNCHANGED <<environ, config_manager, lists, messages, status, clock, self>>

\* yandex_gpt.py 112: asyncio.sleep(1) ends once a second has passed.
PollWake(t) ==
    /\ pc[t] = "sleeping"
    /\ clock >= frame[t].wake
    /\ Goto(t, "poll_check", frame[t], obs[t])
    /\ UNCHANGED <<environ, config_manager, lists, messages, status, clock, self>>

\* (mutant) the text is extracted first, the error field consulted only without one
completion_result_text_first(body, async) ==
    LET text == IF async THEN body.response ELSE body.result
    IN  IF text # None_
        THEN Ok(text)
        ELSE IF Truthy(body.error)
        THEN Raises("Exception", "Failed to get completion: " \o body.error)
        ELSE Raises("KeyError", IF async THEN "'response'" ELSE "'result'")

\* yandex_gpt.py 289-292 (path response) and 345-348 (path result): the error
\* field is looked at first, then the text of the first alternative is read.
completion_result(body, async) ==
    LET text == IF async THEN body.response ELSE body.result
    IN  IF Truthy(body.error)
        THEN Raises("Exception", "Failed to get completion: " \o body.error)
        ELSE IF text = None_
        THEN Raises("KeyError", IF async THEN "'response'" ELSE "'result'")
        ELSE Ok(text)

Inspect(t) ==
    /\ pc[t] = "inspect"
    /\ LET x == completion_result(frame[t].completion_response, IsAsync(t))
       IN  IF ~x.ok THEN Throw(t, x.exc, obs[t])
           ELSE IF InRun(t)
           THEN Goto(t, "append", [EmptyFrame EXCEPT !.completion_text = x.value], obs[t])
           ELSE Return(t, RetText(x.value), obs[t])
    /\ UNCHANGED <<environ, config_manager, lists, messages, status, clock, self>>

\* Time passes: up to the limit, and for as long as some sleep waits for it.
Tick(limit) ==
    /\ \/ clock < limit
       \/ \E t \in Tasks : pc[t] = "sleeping" /\ clock < frame[t].wake
    /\ clock' = clock + 1
    /\ UNCHANGED <<environ, config_manager, lists, messages, status, pc, entry, self, frame,
                   returned, raised, obs>>

-----------------------------------------------------------------------------
(* config_manager.py: construction of YandexGPTConfigManagerForAPIKey,
   YandexGPTConfigManagerForIAMToken and YandexGPTConfigManagerForIAMTokenWithBase64Key *)

ForAPIKey   == "YandexGPTConfigManagerForAPIKey"
ForIAMToken == "YandexGPTConfigManagerForIAMToken"
ForIAMTokenWithBase64Key == "YandexGPTConfigManagerForIAMTokenWithBase64Key"
IamManagers == {ForIAMToken, ForIAMTokenWithBase64Key}
Managers == {ForAPIKey} \cup IamManagers

\* The value a constructor hands back: the manager, whose fields are config_manager.
RetManager == [text |-> "<manager>", body |-> NoBody]

\* The credential field of a manager of the given class.
Credential(variant, cm) == IF variant = ForAPIKey THEN cm.api_key ELSE cm.iam_token

\* (mutant) the environment is consulted only for what the constructor was not given
set_config_from_env_vars_if_not_given(variant, cm, env) ==
    LET get(value, given) == IF Truthy(given) THEN given ELSE getenv(value, given)
        base == [cm EXCEPT !.model_type = get(env.YANDEX_GPT_MODEL_TYPE, @),
                           !.catalog_id = get(env.YANDEX_GPT_CATALOG_ID, @)]
    IN  IF variant = ForAPIKey
        THEN [base EXCEPT !.api_key = get(env.YANDEX_GPT_API_KEY, @)]
        ELSE [base EXCEPT !.iam_token = get(env.YANDEX_GPT_IAM_TOKEN, @)]

\* _set_config_from_env_vars, the three assignments (191-193, 285-287): each field
\* becomes os.environ.get(NAME, self.field).
_set_config_from_env_vars(variant, cm, env) ==
    LET base == [cm EXCEPT !.model_type = getenv(env.YANDEX_GPT_MODEL_TYPE, @),
                           !.catalog_id = getenv(env.YANDEX_GPT_CATALOG_ID, @)]
    IN  IF variant = ForAPIKey
        THEN [base EXCEPT !.api_key = getenv(env.YANDEX_GPT_API_KEY, @)]
        ELSE [base EXCEPT !.iam_token = getenv(env.YANDEX_GPT_IAM_TOKEN, @)]

\* Whether the constructor goes to the environment (182, 273-278): the API key
\* manager always does, the IAM token manager unless it was given all three values.
reads_environ(variant, cm) ==
    variant = ForAPIKey
        \/ ~(Truthy(cm.iam_token) /\ Truthy(cm.catalog_id) /\ Truthy(cm.model_type))

\* (mutant) the catalog id is not checked
check_config_without_catalog(variant, cm) ==
    IF ~Truthy(cm.model_type) THEN Raises("ValueError", "Model type is not set.")
    ELSE IF ~Truthy(Credential(variant, cm))
    THEN Raises("ValueError", IF variant = ForAPIKey THEN "API key is not set."
                              ELSE "IAM token is not set.")
    ELSE Ok(None_)

\* _check_config (195-213, 400-420); the messages are cut after their first sentence.
_check_config(variant, cm) ==
    IF ~Truthy(cm.model_type) THEN Raises("ValueError", "Model type is not set.")
    ELSE IF ~Truthy(cm.catalog_id) THEN Raises("ValueError", "Catalog ID is not set.")
    ELSE IF ~Truthy(Credential(variant, cm))
    THEN Raises("ValueError", IF variant = ForAPIKey THEN "API key is not set."
                              ELSE "IAM token is not set.")
    ELSE Ok(None_)

DEFAULT_IAM_URL == "https://iam.api.cloud.yandex.net/iam/v1/tokens"
JWT_LIFETIME == 360

\* Private keys: one jwt.encode can sign with, one it cannot parse.
ValidKeys == {"pem"}

\* _generate_jwt_token (320-359) at the time now.
_generate_jwt_token(service_account_id, private_key, key_id, url, now) ==
    IF private_key \in ValidKeys
    THEN Ok(Jwt(key_id, url, service_account_id, now, now + JWT_LIFETIME))
    ELSE Raises("InvalidKeyError", "Could not parse the provided private key.")

\* An answer of the token endpoint: the iamToken field of its JSON body, and its text.
IamBody(iamToken, text) == [iamToken |-> iamToken, text |-> text]
IamResponses ==
    {Response(NoExc, 200, IamBody(x, "{}")) : x \in {"t9", "", None_}}
        \cup {Response(NoExc, 500, IamBody(None_, "denied"))}
        \cup {Response(Exc("ConnectionError", "Connection refused"), 0, IamBody(None_, ""))}

\* (mutant) the token field is read whatever the status
swap_jwt_to_iam_unchecked(r) ==
    IF r.exc # NoExc THEN [ok |-> FALSE, value |-> None_, exc |-> r.exc]
    ELSE IF r.body.iamToken # None_ THEN Ok(r.body.iamToken)
    ELSE Raises("KeyError", "'iamToken'")

\* _swap_jwt_to_iam (388-398) on the answer r.
_swap_jwt_to_iam(r) ==
    IF r.exc # NoExc THEN [ok |-> FALSE, value |-> None_, exc |-> r.exc]
    ELSE IF r.status = 200
    THEN IF r.body.iamToken # None_ THEN Ok(r.body.iamToken)
         ELSE Raises("KeyError", "'iamToken'")
    ELSE Raises("Exception", "Failed to get IAM token. Status code: "
                    \o ToString(r.status) \o "\n" \o r.body.text)

\* YandexGPTConfigManagerForAPIKey(model_type, catalog_id, api_key) or
\* YandexGPTConfigManagerForIAMToken(model_type, catalog_id, iam_token) is called:
\* super().__init__ stores the arguments (175-179, 257-261).  One manager is
\* constructed per process.
CallConstruct(t, variant, args) ==
    /\ pc[t] = "ready"
    /\ returned[t] = NoReturn /\ raised[t] = NoExc
    /\ pc' = [pc EXCEPT ![t] = "set_config"]
    /\ entry' = [entry EXCEPT ![t] = variant]
    /\ config_manager' =
          Identity(args.model_type, args.catalog_id,
                   IF variant \in IamManagers THEN args.credential ELSE None_,
                   IF variant = ForAPIKey THEN args.credential ELSE None_)
    /\ frame' = [frame EXCEPT ![t] = [EmptyFrame EXCEPT !.args = args]]
    /\ obs' = [obs EXCEPT ![t] = EmptyObs]
    /\ UNCHANGED <<environ, lists, messages, status, clock, self, returned, raised>>

\* 182, 264 with 269-291: the fields are taken from the environment; the
\* IAM token manager left without a token goes on to mint one.
SetConfig(t) ==
    /\ pc[t] = "set_config"
    /\ LET cm == IF reads_environ(entry[t], config_manager)
                 THEN _set_config_from_env_vars(entry[t], config_manager, environ)
                 ELSE config_manager
           mint == /\ entry[t] \in IamManagers
                   /\ reads_environ(entry[t], config_manager)
                   /\ ~Truthy(cm.iam_token)
       IN  /\ config_manager' = cm
           /\ Goto(t, IF mint THEN "iam_env" ELSE "check_config", frame[t], obs[t])
    /\ UNCHANGED <<environ, lists, messages, status, clock, self>>

\* base64.b64decode(...).decode("utf-8") (457-458) of the values the key variable
\* takes here: the encoding of a key, of something that is no key, and a string
\* whose length is no multiple of four.
b64decode(s) ==
    CASE s = "cGVt"         -> Ok("pem")
      [] s = "Z2FyYmFnZQ==" -> Ok("garbage")
      [] OTHER              -> Raises("binascii.Error", "Incorrect padding")

\* (mutant) the catalog id the manager already holds makes up for the variable
env_complete_or_given(iam_url, service_account_id, service_account_key_id, catalog_id, key) ==
    /\ Truthy(iam_url) /\ Truthy(service_account_id) /\ Truthy(service_account_key_id)
    /\ Truthy(catalog_id) \/ Truthy(config_manager.catalog_id)
    /\ Truthy(key)

\* 305, 449: all([iam_url, service_account_id, service_account_key_id, catalog_id, key])
env_complete(iam_url, service_account_id, service_account_key_id, catalog_id, key) ==
    /\ Truthy(iam_url) /\ Truthy(service_account_id) /\ Truthy(service_account_key_id)
    /\ Truthy(catalog_id)
    /\ Truthy(key)

\* _set_iam_from_env_config_and_private_key 298-315, and 441-463 in the manager
\* that takes the key Base64-encoded: the variables are read and checked, the key
\* decoded where it is encoded, the assertion signed.
SetIamFromEnv(t) ==
    /\ pc[t] = "iam_env"
    /\ LET iam_url == getenv(environ.YANDEX_GPT_IAM_URL, DEFAULT_IAM_URL)
           service_account_id == getenv(environ.YANDEX_GPT_SERVICE_ACCOUNT_ID, None_)
           service_account_key_id == getenv(environ.YANDEX_GPT_SERVICE_ACCOUNT_KEY_ID, None_)
           catalog_id == getenv(environ.YANDEX_GPT_CATALOG_ID, None_)
           key_read == IF entry[t] = ForIAMTokenWithBase64Key
                       THEN getenv(environ.YANDEX_GPT_PRIVATE_KEY_BASE64, None_)
                       ELSE getenv(environ.YANDEX_GPT_PRIVATE_KEY, None_)
           decoded == IF entry[t] = ForIAMTokenWithBase64Key
                      THEN b64decode(key_read) ELSE Ok(key_read)
           jwt == _generate_jwt_token(service_account_id, decoded.value,
                                     service_account_key_id, iam_url, clock)
       IN  IF ~env_complete(iam_url, service_account_id, service_account_key_id,
                            catalog_id, key_read)
           THEN Throw(t, Exc("ValueError",
                    "One or more environment variables for IAM token generation are missing."),
                    obs[t])
           ELSE IF ~decoded.ok THEN Throw(t, decoded.exc, obs[t])
           ELSE IF ~jwt.ok THEN Throw(t, jwt.exc, obs[t])
           ELSE Goto(t, "iam_post",
                     [frame[t] EXCEPT !.iam_url = iam_url, !.jwt_token = jwt.value], obs[t])
    /\ UNCHANGED <<environ, config_manager, lists, messages, status, clock, self>>

\* _swap_jwt_to_iam 388-392: requests.post(url, headers, json={"jwt": jwt_token})
IamPost(t) ==
    /\ pc[t] = "iam_post"
    /\ Goto(t, "iam_post_wait", frame[t],
            [obs[t] EXCEPT !.posts = @ + 1, !.post_url = frame[t].iam_url,
                           !.post_jwt = frame[t].jwt_token])
    /\ UNCHANGED <<environ, config_manager, lists, messages, status, clock, self>>

\* 317 with 393-398: the answer arrives; the token it carries becomes self.iam_token.
IamResponse(t, r) ==
    /\ pc[t] = "iam_post_wait"
    /\ LET token == _swap_jwt_to_iam(r)
           ob == [obs[t] EXCEPT !.resp = r]
       IN  IF token.ok
           THEN /\ config_manager' = [config_manager EXCEPT !.iam_token = token.value]
                /\ Goto(t, "check_config", frame[t], ob)
           ELSE /\ UNCHANGED config_manager
                /\ Throw(t, token.exc, ob)
    /\ UNCHANGED <<environ, lists, messages, status, clock, self>>

\* 185, 267: _check_config; the constructor returns the manager or raises.
CheckConfig(t) ==
    /\ pc[t] = "check_config"
    /\ LET c == _check_config(entry[t], config_manager)
       IN  IF c.ok THEN Return(t, RetManager, obs[t]) ELSE Throw(t, c.exc, obs[t])
    /\ UNCHANGED <<environ, config_manager, lists, messages, status, clock, self>>

\* The environments and constructor arguments the managers are constructed in.
Environs ==
    {Environ(m, c, k, i, u, sa, kid, pk, pk64) :
        m \in {None_, "yandexgpt-lite"}, c \in {None_, "", "cat2"}, k \in {None_, "k2"},
        i \in {None_, "", "t2"}, u \in {None_, ""}, sa \in {None_, "sa1"},
        kid \in {None_, "kid1"}, pk \in {None_, "pem", "garbage"},
        pk64 \in {None_, "cGVt", "pem"}}
ArgsSet ==
    {Args(m, c, cred) : m \in {None_, "", "yandexgpt"}, c \in {None_, "cat1"},
                        cred \in {None_, "", "x1"}}

-----------------------------------------------------------------------------
(* One caller, one thread instance *)

InitTasks ==
    /\ clock = 0
    /\ pc = [t \in Tasks |-> "ready"]
    /\ entry = [t \in Tasks |-> "none"]
    /\ self = [t \in Tasks |-> 1]
    /\ frame = [t \in Tasks |-> EmptyFrame]
    /\ returned = [t \in Tasks |-> NoReturn]
    /\ raised = [t \in Tasks |-> NoExc]
    /\ obs = [t \in Tasks |-> EmptyObs]

\* thread.py 43-53: the instances are constructed; given[th] tells whether the
\* caller's list (list 0) is passed to the constructor of th.
InitThreads(given) ==
    /\ \E l0 \in InitialLists :
          /\ lists = [i \in ListIds |-> IF i = 0 THEN l0 ELSE <<>>]
          /\ messages = [th \in Threads |-> InitMessages(given[th], 0, l0, th)]
    /\ status = [th \in Threads |-> YandexGPTThreadStatus("created", None_)]

Init ==
    /\ environ = EmptyEnviron
    /\ config_manager \in ThreadIdentities
    /\ \E g \in BOOLEAN : InitThreads([th \in Threads |-> g /\ th = 1])
    /\ InitTasks

\* The steps of the call task t is in.
Step(t) ==
    \/ RunGuard(t)
    \/ RunSetRunning(t)
    \/ BuildHeaders(t)
    \/ BuildPayload(t)
    \/ Post(t)
    \/ \E r \in SubmitResponses : SubmitResponse(t, r)
    \/ \E r \in SyncResponses : SyncResponse(t, r)
    \/ PollStart(t)
    \/ PollCheck(t)
    \/ PollGet(t)
    \/ \E r \in PollResponses : PollResponse(t, r)
    \/ PollWake(t)
    \/ Inspect(t)
    \/ RunAppend(t)
    \/ RunExcept(t)
    \/ RunExceptMessage(t)
    \/ RunFinally(t)

\* The calls a caller makes on thread instance th.
Calls(t, th, roles) ==
    \/ \E role \in roles, text \in UserTexts : AddMessage(t, th, role, text)
    \/ \E timeout \in 0..MaxRunTimeout : CallRun(t, th, "run_async", timeout)
    \/ CallRun(t, th, "run_sync", 0)

Next ==
    \/ Calls(1, 1, Roles)
    \/ Step(1)
    \/ Tick(MaxRunClock)

Spec == Init /\ [][Next]_vars

-----------------------------------------------------------------------------
(* The accessors called on every identity *)

\* The caller reads one derived accessor of the configuration manager.
CallAccessor(t, name) ==
    /\ pc[t] = "ready"
    /\ entry' = [entry EXCEPT ![t] = name]
    /\ LET r == Access(name, config_manager)
       IN  /\ returned' = [returned EXCEPT ![t] = IF r.ok THEN RetText(r.value) ELSE NoReturn]
           /\ raised' = [raised EXCEPT ![t] = IF r.ok THEN NoExc ELSE r.exc]
    /\ UNCHANGED <<environ, config_manager, lists, messages, status, clock, pc, self, frame, obs>>

InitCfg ==
    /\ environ = EmptyEnviron
    /\ config_manager \in Identities
    /\ InitThreads([th \in Threads |-> FALSE])
    /\ InitTasks

NextCfg == \E name \in Accessors : CallAccessor(1, name)

SpecCfg == InitCfg /\ [][NextCfg]_vars

-----------------------------------------------------------------------------
(* A manager constructed in every environment *)

InitCtor ==
    /\ environ \in Environs
    /\ config_manager = Identity(None_, None_, None_, None_)
    /\ InitThreads([th \in Threads |-> FALSE])
    /\ InitTasks

NextCtor ==
    \/ \E variant \in Managers, args \in ArgsSet : CallConstruct(1, variant, args)
    \/ SetConfig(1)
    \/ SetIamFromEnv(1)
    \/ IamPost(1)
    \/ \E r \in IamResponses : IamResponse(1, r)
    \/ CheckConfig(1)

SpecCtor == InitCtor /\ [][NextCtor]_vars

-----------------------------------------------------------------------------
(* poll_async_completion called on its own *)

\* The caller invokes poll_async_completion(operation_id, headers, timeout).
CallPoll(t, operation_id, timeout) ==
    /\ pc[t] = "ready"
    /\ clock <= MaxClock
    /\ pc' = [pc EXCEPT ![t] = "poll_start"]
    /\ entry' = [entry EXCEPT ![t] = "poll_async_completion"]
    /\ frame' = [frame EXCEPT ![t] = [EmptyFrame EXCEPT !.timeout = timeout,
                                          !.completion_request_id = operation_id]]
    /\ obs' = [obs EXCEPT ![t] = [EmptyObs EXCEPT !.timeout = timeout]]
    /\ returned' = [returned EXCEPT ![t] = NoReturn]
    /\ raised' = [raised EXCEPT ![t] = NoExc]
    /\ UNCHANGED <<environ, config_manager, lists, messages, status, clock, self>>

InitPoll ==
    /\ environ = EmptyEnviron
    /\ config_manager = Identity("yandexgpt", "cat1", "t1", None_)
    /\ InitThreads([th \in Threads |-> FALSE])
    /\ InitTasks

NextPoll ==
    \/ \E timeout \in 0..MaxTimeout : CallPoll(1, "op1", timeout)
    \/ PollStart(1)
    \/ PollCheck(1)
    \/ PollGet(1)
    \/ \E r \in PollResponses : PollResponse(1, r)
    \/ PollWake(1)
    \/ Tick(MaxClock)

SpecPoll == InitPoll /\ [][NextPoll]_vars

-----------------------------------------------------------------------------
(* Two cooperatively scheduled tasks on one thread instance *)

\* (mutant) a task can also be switched out between the status check and the
\* assignment of "running"
Suspended_after_check(t) ==
    \/ pc[t] \in {"ready", "poll_wait", "sleeping", "set_running"}
    \/ pc[t] = "post_wait" /\ IsAsync(t)

\* A task is suspended when it is outside any call or at an await: the answer to
\* session.post or session.get (the awaits of resp.json() merged into them), or
\* asyncio.sleep.  requests.post of the synchronous path blocks the event loop.
Suspended(t) ==
    \/ pc[t] \in {"ready", "poll_wait", "sleeping"}
    \/ pc[t] = "post_wait" /\ IsAsync(t)

\* The event loop runs one task at a time, from one await to the next.  What a call
\* does is the same whichever task makes it, so of two tasks that are both outside
\* any call it is task 1 that calls next.
NextCoop ==
    \/ \E t \in Tasks :
          /\ \A u \in Tasks \ {t} : Suspended(u)
          /\ \/ (t = 1 \/ pc[1] # "ready") /\ Calls(t, 1, {"user"})
             \/ Step(t)
    \/ Tick(MaxRunClock)

SpecCoop == Init /\ [][NextCoop]_vars

-----------------------------------------------------------------------------
(* Properties of the accessors (SpecCfg) *)

NonEmpty(x) == x \notin {None_, ""}
NoCredential == ~NonEmpty(config_manager.iam_token) /\ ~NonEmpty(config_manager.api_key)
SupportedModel == config_manager.model_type \in {"yandexgpt", "yandexgpt-lite", "summarization"}
Failed(t) == raised[t].type = "ValueError" /\ returned[t] = NoReturn
Gave(t, text) == returned[t].text = text /\ raised[t] = NoExc

\* C6: precedence law. With a non-empty IAM token the authorization field is
\* "Bearer " + token whether or not an API key is set; "Api-Key " + key is given
\* exactly when the token is absent and the key present; with neither the accessor fails.
C6_Precedence ==
    entry[1] = "authorization" =>
        /\ NonEmpty(config_manager.iam_token)
              => Gave(1, "Bearer " \o config_manager.iam_token)
        /\ Gave(1, "Api-Key " \o config_manager.api_key)
              <=> (~NonEmpty(config_manager.iam_token) /\ NonEmpty(config_manager.api_key))
        /\ NoCredential => Failed(1)

C6_Witness ==
    /\ entry[1] = "authorization"
    /\ config_manager.iam_token = "t1"
    /\ config_manager.api_key = "k1"
    /\ returned[1].text = "Bearer t1"

\* C7 as stated: with neither token nor key, every derived accessor fails.
C7_EveryAccessorFails ==
    (entry[1] \in Accessors /\ NoCredential) => Failed(1)

\* C7 (amended): with neither token nor key the authorization accessor fails; the
\* account accessor and the model URI accessor do not look at the credentials: the
\* first fails exactly when the account id is unset, the second exactly when the
\* model is outside the enumerated set or the account id is unset.
C7_AccessorsWithoutCredential ==
    NoCredential =>
        /\ entry[1] = "authorization" => Failed(1)
        /\ entry[1] = "catalog_id" =>
              IF NonEmpty(config_manager.catalog_id)
              THEN Gave(1, config_manager.catalog_id)
              ELSE Failed(1)
        /\ entry[1] = "model_type_uri" =>
              (Failed(1) <=> ~(SupportedModel /\ NonEmpty(config_manager.catalog_id)))

C7_Witness ==
    /\ entry[1] = "catalog_id"
    /\ NoCredential
    /\ config_manager.catalog_id = "cat1"
    /\ Gave(1, "cat1")

\* C8: the model URI accessor gives "gpt://" + account + "/" + model + "/latest"
\* exactly when the model is one of the three supported ones and the account id is
\* set; otherwise it fails with a ValueError and gives no URI.
C8_ModelUri ==
    entry[1] = "model_type_uri" =>
        IF SupportedModel /\ NonEmpty(config_manager.catalog_id)
        THEN Gave(1, "gpt://" \o config_manager.catalog_id \o "/"
                         \o config_manager.model_type \o "/latest")
        ELSE Failed(1)

C8_Witness ==
    /\ entry[1] = "model_type_uri"
    /\ config_manager.catalog_id = "cat1"
    /\ config_manager.model_type = "yandexgpt-lite"
    /\ Gave(1, "gpt://cat1/yandexgpt-lite/latest")

-----------------------------------------------------------------------------
(* Properties of the poller called on its own (SpecPoll) *)

PollReturned == pc[1] = "ready" /\ raised[1] = NoExc /\ obs[1].gets > 0
PollFailed   == pc[1] = "ready" /\ raised[1] # NoExc

\* C9: a poll that is answered HTTP 200 done=false k times and then done=true
\* issues k+1 GETs, begins k one-second waits (one after each not-done answer, none
\* after the done answer), each of which has lasted at least a second when the next
\* check runs, and returns the body of the last answer.
C9_PollCount ==
    /\ obs[1].sleeps = obs[1].notdone
    /\ pc[1] # "sleeping" => clock >= obs[1].t0 + obs[1].sleeps * POLL_INTERVAL
    /\ PollReturned =>
          /\ obs[1].gets = obs[1].notdone + 1
          /\ obs[1].resp.status = 200
          /\ obs[1].resp.body.done
          /\ returned[1].body = obs[1].resp.body

C9_Witness ==
    /\ PollReturned
    /\ obs[1].notdone = 2
    /\ obs[1].gets = 3
    /\ obs[1].sleeps = 2
    /\ returned[1].body.done

\* C10: a poll with timeout T that is only ever answered done=false returns no
\* body and ends with TimeoutError; no poll issues more than T+1 GETs; and when the
\* HTTP calls take no time and each wait lasts exactly one second (the clock has
\* advanced by the number of waits), it fails at T+1 seconds after T+1 GETs.
C10_Timeout ==
    /\ obs[1].gets <= obs[1].timeout + 1
    /\ PollReturned => obs[1].notdone < obs[1].gets
    /\ (PollFailed /\ obs[1].notdone = obs[1].gets) => raised[1].type = "TimeoutError"
    /\ (PollFailed /\ raised[1].type = "TimeoutError"
            /\ clock = obs[1].t0 + obs[1].sleeps * POLL_INTERVAL)
          => /\ obs[1].gets = obs[1].timeout + 1
             /\ clock = obs[1].t0 + obs[1].timeout + 1

C10_Witness ==
    /\ PollFailed
    /\ raised[1].type = "TimeoutError"
    /\ obs[1].timeout = 3
    /\ obs[1].notdone = 4
    /\ obs[1].gets = 4
    /\ obs[1].t0 = 0
    /\ clock = 4

-----------------------------------------------------------------------------
(* Properties of run with one caller (Spec) and with two tasks (SpecCoop) *)

\* The step in which run returns to its caller.
RunReturns(t) == InRun(t) /\ pc[t] = "finally" /\ pc'[t] = "ready"
HistoryAfter(th) == lists'[messages'[th]]

\* What the backend answered last: the text at response... (asynchronous) or
\* result... (synchronous); the answer is good when it is an HTTP 200 (done, if
\* polled) without error field and with a text.
BackendText(t) ==
    IF entry[t] = "run_async" THEN obs[t].resp.body.response ELSE obs[t].resp.body.result
GoodAnswer(t) ==
    /\ obs[t].resp.exc = NoExc
    /\ obs[t].resp.status = 200
    /\ entry[t] = "run_async" => obs[t].resp.body.done
    /\ obs[t].resp.body.error = None_
    /\ BackendText(t) \in Texts

\* C1: a run (run_sync or run_async) begun with history H whose completion succeeds
\* with the backend's text x returns with history H followed by the one message
\* (assistant, x) and with status idle.
C1_RunAppendsReply ==
    [][\A t \in Tasks :
          (RunReturns(t) /\ (GoodAnswer(t) \/ obs[t].failure = NoExc)) =>
              /\ GoodAnswer(t) /\ obs[t].failure = NoExc
              /\ HistoryAfter(self[t])
                    = Append(obs[t].H0, [role |-> "assistant", text |-> BackendText(t)])
              /\ status'[self[t]].status = "idle"]_vars

C1_Witness ==
    /\ pc[1] = "ready"
    /\ History(1) = << [role |-> "user", text |-> "hi"], [role |-> "assistant", text |-> "hello"] >>
    /\ status[1] = [status |-> "idle", last_error_message |-> None_]

\* C2: a run whose completion fails (identity incomplete, submit, poll, timeout,
\* error field, malformed body) returns with the history it began with, status idle
\* and last_error_message the description of that failure.
C2_FailedRunKeepsHistory ==
    [][\A t \in Tasks :
          (RunReturns(t) /\ (~GoodAnswer(t) \/ obs[t].failure # NoExc)) =>
              /\ ~GoodAnswer(t) /\ obs[t].failure # NoExc
              /\ HistoryAfter(self[t]) = obs[t].H0
              /\ status'[self[t]] =
                    [status |-> "idle", last_error_message |-> obs[t].failure.msg]]_vars

C2_Witness ==
    /\ pc[1] = "finally"
    /\ entry[1] = "run_async"
    /\ obs[1].failure = [type |-> "TimeoutError", msg |-> "Operation timed out after 1 seconds"]
    /\ obs[1].H0 = << [role |-> "user", text |-> "hi"] >>
    /\ History(1) = obs[1].H0
    /\ status[1].last_error_message = "Operation timed out after 1 seconds"

\* C3: a run invoked while the status is running raises "Thread is already
\* running" to its caller and changes nothing: history, status and last error are
\* as before, and the call has issued no request when it ends.
C3_RejectedRunHasNoEffect ==
    [][\A t \in Tasks :
          (pc[t] = "guard" /\ status[self[t]].status = "running" /\ pc'[t] # "guard") =>
              /\ pc'[t] = "ready"
              /\ raised'[t] = [type |-> "Exception", msg |-> "Thread is already running"]
              /\ UNCHANGED <<lists, messages, status>>
              /\ obs[t].posts = 0 /\ obs[t].gets = 0
              /\ obs'[t].posts = 0 /\ obs'[t].gets = 0]_vars

C3_Witness ==
    /\ raised[2].msg = "Thread is already running"
    /\ pc[2] = "ready"
    /\ pc[1] = "sleeping"
    /\ status[1].status = "running"

\* C4: a run that has passed the guard propagates no failure of the completion
\* path: every exception raised there, in run_sync and in run_async, lands in the
\* handler of run, which records it in the status; run returns normally.
C4_FailuresAbsorbed ==
    [][\A t \in Tasks :
          /\ (InRun(t) /\ obs[t].failure = NoExc /\ obs'[t].failure # NoExc) =>
                /\ pc'[t] = "except"
                /\ frame'[t].e = obs'[t].failure
                /\ raised'[t] = NoExc
          /\ (InRun(t) /\ pc[t] \notin {"ready", "guard"} /\ pc'[t] = "ready") =>
                /\ pc[t] = "finally"
                /\ raised'[t] = NoExc
                /\ obs[t].failure # NoExc =>
                      status'[self[t]].last_error_message = obs[t].failure.msg]_vars

C4_Witness ==
    /\ pc[1] = "except"
    /\ entry[1] = "run_sync"
    /\ frame[1].e.msg = "Failed to send sync request, status code: 500"
    /\ raised[1] = NoExc

\* A status change of thread instance th, from a to b, made by task t.
Moves(th, t, a, b) ==
    /\ self[t] = th
    /\ pc'[t] # pc[t]
    /\ status[th].status = a
    /\ status'[th].status = b

\* C5: the status starts as created; the guard passes from created, idle and error
\* and the run then sets running; a successful run goes running -> idle; a failing
\* run goes running -> error, records the last error, and goes error -> idle; no
\* other change of status happens, and run returns only with status idle.
C5_Transitions ==
    [][/\ \A th \in Threads :
             status'[th].status # status[th].status =>
                 \E t \in Tasks :
                     \/ /\ Moves(th, t, status[th].status, "running")
                        /\ status[th].status \in {"created", "idle", "error"}
                        /\ pc[t] = "set_running"
                     \/ /\ Moves(th, t, "running", "idle")
                        /\ pc[t] = "finally" /\ obs[t].failure = NoExc
                     \/ /\ Moves(th, t, "running", "error")
                        /\ pc[t] = "except" /\ obs[t].failure # NoExc
                     \/ /\ Moves(th, t, "error", "idle")
                        /\ pc[t] = "finally" /\ obs[t].failure # NoExc
                        /\ status[th].last_error_message = obs[t].failure.msg
       /\ \A t \in Tasks :
             /\ (pc[t] = "guard" /\ pc'[t] # "guard") =>
                   (pc'[t] = "set_running" <=> status[self[t]].status # "running")
             /\ (pc[t] = "set_running" /\ pc'[t] # "set_running") =>
                   status'[self[t]].status = "running"
             /\ RunReturns(t) =>
                   /\ status[self[t]].status
                         = IF obs[t].failure = NoExc THEN "running" ELSE "error"
                   /\ status'[self[t]].status = "idle"]_vars

\* Every run that passed the guard comes back, with the status idle.
C5_Reaches_idle ==
    \A t \in Tasks :
        (InRun(t) /\ pc[t] = "set_running") ~> (pc[t] = "ready" /\ status[self[t]].status = "idle")

NextLive ==
    \/ Calls(1, 1, {"user"})
    \/ Step(1)
    \/ Tick(MaxRunClock)

SpecLive == Init /\ [][NextLive]_vars /\ WF_vars(Step(1)) /\ WF_vars(Tick(MaxRunClock))

-----------------------------------------------------------------------------
(* get_sync_completion and get_async_completion called on their own *)

\* The caller invokes get_async_completion(messages, timeout=...) or
\* get_sync_completion(messages) on the client, with the list self.messages.
CallCompletion(t, kind, timeout) ==
    /\ pc[t] = "ready"
    /\ clock <= MaxRunClock
    /\ pc' = [pc EXCEPT ![t] = "headers"]
    /\ entry' = [entry EXCEPT ![t] = kind]
    /\ frame' = [frame EXCEPT ![t] = [EmptyFrame EXCEPT !.timeout = timeout]]
    /\ obs' = [obs EXCEPT ![t] = [EmptyObs EXCEPT !.timeout = timeout]]
    /\ returned' = [returned EXCEPT ![t] = NoReturn]
    /\ raised' = [raised EXCEPT ![t] = NoExc]
    /\ UNCHANGED <<environ, config_manager, lists, messages, status, clock, self>>

\* The operation ids the backend hands out to a direct caller.
OperationIds == {"op1", "op2"}
ClientSubmitResponses ==
    SubmitResponses
        \cup {Response(NoExc, c, Body(i, FALSE, None_, None_, None_)) :
                 c \in StatusCodes, i \in OperationIds}

NextClient ==
    \/ \E timeout \in 0..MaxRunTimeout : CallCompletion(1, "get_async_completion", timeout)
    \/ CallCompletion(1, "get_sync_completion", 0)
    \/ BuildHeaders(1)
    \/ BuildPayload(1)
    \/ Post(1)
    \/ \E r \in ClientSubmitResponses : SubmitResponse(1, r)
    \/ \E r \in SyncResponses : SyncResponse(1, r)
    \/ PollStart(1)
    \/ PollCheck(1)
    \/ PollGet(1)
    \/ \E r \in PollResponses : PollResponse(1, r)
    \/ PollWake(1)
    \/ Inspect(1)
    \/ Tick(MaxRunClock)

SpecClient == Init /\ [][NextClient]_vars

-----------------------------------------------------------------------------
(* Properties of the completion calls (SpecClient) *)

\* The step in which the call of task t comes back to its caller.
CallEnds(t, kind) == entry[t] = kind /\ pc[t] # "ready" /\ pc'[t] = "ready"
ReturnsText(t, x) == returned'[t] = [text |-> x, body |-> NoBody] /\ raised'[t] = NoExc
FailsWith(t, type, msg) ==
    raised'[t] = [type |-> type, msg |-> msg] /\ returned'[t] = NoReturn

PollPcs == {"poll_start", "poll_check", "poll_get", "poll_wait", "sleeping"}

\* C12: get_async_completion issues at most one POST; answered HTTP 200 the submit
\* gives the id field of the body as the operation identifier and polling starts
\* with it; answered with a non-200 status the call fails at once with the status
\* code and has issued no GET; every GET is issued after a successful submit and
\* carries the identifier that submit returned.
C12_SubmitThenPoll ==
    [][\A t \in Tasks :
          entry[t] = "get_async_completion" =>
              /\ obs'[t].posts <= 1
              /\ obs'[t].gets > 0 => obs'[t].posts = 1
              /\ (pc[t] = "post_wait" /\ pc'[t] # "post_wait" /\ obs'[t].resp.exc = NoExc) =>
                    LET r == obs'[t].resp
                    IN  IF r.status = 200 /\ r.body.id # None_
                        THEN /\ pc'[t] = "poll_start"
                             /\ frame'[t].completion_request_id = r.body.id
                             /\ obs'[t].gets = 0
                        ELSE IF r.status = 200
                        THEN FailsWith(t, "KeyError", "'id'") /\ obs'[t].gets = 0
                        ELSE /\ FailsWith(t, "Exception",
                                    "Failed to send async request, status code: "
                                        \o ToString(r.status))
                             /\ pc'[t] = "ready"
                             /\ obs'[t].gets = 0
              /\ (pc[t] \in PollPcs /\ pc'[t] \in PollPcs) =>
                    frame'[t].completion_request_id = frame[t].completion_request_id
              /\ obs'[t].gets > obs[t].gets =>
                    /\ obs'[t].get_id = frame[t].completion_request_id
                    /\ obs[t].posts = 1
                    /\ frame[t].completion_request_id \in OperationIds]_vars

C12_Witness ==
    /\ entry[1] = "get_async_completion"
    /\ pc[1] = "poll_wait"
    /\ obs[1].posts = 1
    /\ obs[1].gets = 2
    /\ obs[1].get_id = "op2"
    /\ frame[1].completion_request_id = "op2"

-----------------------------------------------------------------------------
(* add_message called while a run is under way *)

\* Task 1 runs the thread; task 2 calls add_message on it at any moment, with any role.
NextAdd ==
    \/ \E timeout \in 0..MaxRunTimeout : CallRun(1, 1, "run_async", timeout)
    \/ CallRun(1, 1, "run_sync", 0)
    \/ Step(1)
    \/ \E role \in Roles, text \in UserTexts : AddMessage(2, 1, role, text)
    \/ Tick(MaxRunClock)

SpecAdd == Init /\ [][NextAdd]_vars

\* A step of add_message called from outside: the lists change, no call moves.
AddMessageStep == lists' # lists /\ pc' = pc

\* C13: add_message(role, text), whatever the status of the thread (created,
\* running, idle, and error as well) and whatever the role, appends the one message
\* (role, text) at the end of the history, keeps the earlier messages in order, and
\* leaves status, last_error_message and every other list as they are.
C13_AddMessageAppends ==
    [][AddMessageStep =>
          \E th \in Threads, role \in Roles, text \in UserTexts :
              /\ HistoryAfter(th) = Append(History(th), [role |-> role, text |-> text])
              /\ \A i \in ListIds \ {messages[th]} : lists'[i] = lists[i]
              /\ UNCHANGED <<messages, status>>
              /\ status[th].status \in {"created", "running", "error", "idle"}]_vars

C13_Witness ==
    /\ status[1].status = "running"
    /\ pc[1] = "sleeping"
    /\ obs[1].H0 = << [role |-> "user", text |-> "hi"] >>
    /\ History(1) = << [role |-> "user", text |-> "hi"], [role |-> "tool", text |-> "hi"] >>

-----------------------------------------------------------------------------
(* Two thread instances, one caller *)

\* Each instance is constructed with or without the caller's list (list 0): both
\* without, one with, or both with the same list.
InitTwo ==
    /\ environ = EmptyEnviron
    /\ config_manager \in ThreadIdentities
    /\ \E given \in [Threads -> BOOLEAN] : InitThreads(given)
    /\ InitTasks

\* The answers served here: a reply that is ready at once, or a rejection.
TwoSubmitResponses == {Response(NoExc, 200, Body("op1", FALSE, None_, None_, None_))}
TwoPollResponses ==
    {Response(NoExc, 200, Body(None_, TRUE, None_, "hello", None_)), Response(NoExc, 500, NoBody)}
TwoSyncResponses ==
    {Response(NoExc, 200, Body(None_, FALSE, None_, None_, "hello")), Response(NoExc, 500, NoBody)}

\* The caller calls add_message, run_sync and run_async on either instance.
NextTwo ==
    \/ \E th \in Threads : AddMessage(1, th, "user", "hi")
    \/ \E th \in Threads : CallRun(1, th, "run_sync", 0)
    \/ \E th \in Threads : CallRun(1, th, "run_async", 0)
    \/ RunGuard(1)
    \/ RunSetRunning(1)
    \/ BuildHeaders(1)
    \/ BuildPayload(1)
    \/ Post(1)
    \/ \E r \in TwoSubmitResponses : SubmitResponse(1, r)
    \/ \E r \in TwoSyncResponses : SyncResponse(1, r)
    \/ PollStart(1)
    \/ PollCheck(1)
    \/ PollGet(1)
    \/ \E r \in TwoPollResponses : PollResponse(1, r)
    \/ Inspect(1)
    \/ RunAppend(1)
    \/ RunExcept(1)
    \/ RunExceptMessage(1)
    \/ RunFinally(1)

SpecTwo == InitTwo /\ [][NextTwo]_vars

\* The step is part of an operation on thread instance th.
OperationOn(th) ==
    \E t \in Tasks : self'[t] = th /\ (pc'[t] # pc[t] \/ AddMessageStep)

\* C14: two distinct instances share no state: history, status and
\* last_error_message of an instance change only in operations on that instance,
\* however the two instances were constructed.
C14_Independent ==
    [][\A th \in Threads :
          (HistoryAfter(th) # History(th) \/ status'[th] # status[th]) => OperationOn(th)]_vars

\* Instances that do not hold the same list object are independent.
C14_IndependentUnlessShared ==
    [][messages[1] # messages[2] =>
          \A th \in Threads :
              (HistoryAfter(th) # History(th) \/ status'[th] # status[th]) => OperationOn(th)]_vars

\* Two instances constructed from the same non-empty list hold the same list object.
C14_SharedList ==
    /\ messages[1] = messages[2]
    /\ History(2) = << [role |-> "user", text |-> "hi"], [role |-> "user", text |-> "hi"] >>
    /\ self[1] = 1
    /\ status[2].status = "created"

-----------------------------------------------------------------------------
(* Properties of the construction of a manager (SpecCtor) *)

\* The step in which the constructor called by task t comes back.
ConstructEnds(t) == entry[t] \in Managers /\ pc[t] # "ready" /\ pc'[t] = "ready"
\* The step in which the constructor has gone through _set_config_from_env_vars
\* or has decided not to.
ConfigSet(t) == entry[t] \in Managers /\ pc[t] = "set_config" /\ pc'[t] # "set_config"
AllSet(variant, cm) ==
    NonEmpty(cm.model_type) /\ NonEmpty(cm.catalog_id) /\ NonEmpty(Credential(variant, cm))

\* C15: the construction of an API key or IAM token manager hands back a manager
\* exactly when model type, catalog id and the class's credential are all
\* non-empty after resolution; when one of them is absent at the final check the
\* constructor raises ValueError, and a constructor that raises hands back nothing.
C15_ConstructionChecked ==
    [][\A t \in Tasks :
          ConstructEnds(t) =>
              /\ returned'[t] = RetManager <=> raised'[t] = NoExc
              /\ returned'[t] \in {RetManager, NoReturn}
              /\ returned'[t] = RetManager <=> AllSet(entry[t], config_manager')
              /\ (pc[t] = "check_config" /\ ~AllSet(entry[t], config_manager)) =>
                    raised'[t].type = "ValueError"]_vars

C15_Witness ==
    /\ pc[1] = "ready"
    /\ raised[1] = [type |-> "ValueError", msg |-> "Catalog ID is not set."]
    /\ returned[1] = NoReturn
    /\ config_manager.model_type = "yandexgpt-lite"
    /\ config_manager.catalog_id = ""
    /\ config_manager.api_key = "k2"

\* The value of a field among the constructor's arguments and in the environment.
ArgOf(t, f) ==
    CASE f = "model_type" -> frame[t].args.model_type
      [] f = "catalog_id" -> frame[t].args.catalog_id
      [] f = "credential" -> frame[t].args.credential
EnvOf(t, f) ==
    CASE f = "model_type" -> environ.YANDEX_GPT_MODEL_TYPE
      [] f = "catalog_id" -> environ.YANDEX_GPT_CATALOG_ID
      [] f = "credential" -> IF entry[t] = ForAPIKey THEN environ.YANDEX_GPT_API_KEY
                             ELSE environ.YANDEX_GPT_IAM_TOKEN
ResolvedOf(t, f) ==
    CASE f = "model_type" -> config_manager'.model_type
      [] f = "catalog_id" -> config_manager'.catalog_id
      [] f = "credential" -> Credential(entry[t], config_manager')
Fields == {"model_type", "catalog_id", "credential"}

\* C16: resolution follows explicit > environment > token exchange: a value given
\* to the constructor is the one used; the environment's value is used only for a
\* field the constructor was not given; the token exchange is entered only when
\* neither the constructor nor the environment supplies a token.
C16_ExplicitFirst ==
    [][\A t \in Tasks :
          ConfigSet(t) =>
              /\ \A f \in Fields :
                    /\ NonEmpty(ArgOf(t, f)) => ResolvedOf(t, f) = ArgOf(t, f)
                    /\ (ResolvedOf(t, f) = EnvOf(t, f) /\ EnvOf(t, f) # ArgOf(t, f))
                          => ~NonEmpty(ArgOf(t, f))
              /\ pc'[t] = "iam_env" =>
                    ~NonEmpty(ArgOf(t, "credential")) /\ ~NonEmpty(EnvOf(t, "credential"))]_vars

\* The constructor was given every value, so the IAM token manager leaves the
\* environment unread.
GivenAll(t) == \A f \in Fields : NonEmpty(ArgOf(t, f))

\* C17 as stated: in every manager, for every field, an environment variable that
\* is present overrides the value given to the constructor.
C17_EnvOverrides ==
    [][\A t \in Tasks :
          ConfigSet(t) =>
              \A f \in Fields : EnvOf(t, f) # None_ => ResolvedOf(t, f) = EnvOf(t, f)]_vars

\* C17 (amended): in the API key manager always, and in the IAM token manager
\* unless the constructor was given model type, catalog id and IAM token all
\* non-empty, an environment variable that is present (even empty) overrides the
\* value given to the constructor and an absent one leaves that value; an IAM token
\* manager given all three keeps them and does not read the environment.
C17_EnvOverridesWhenRead ==
    [][\A t \in Tasks :
          ConfigSet(t) =>
              \A f \in Fields :
                  ResolvedOf(t, f) =
                      IF entry[t] \in IamManagers /\ GivenAll(t) THEN ArgOf(t, f)
                      ELSE IF EnvOf(t, f) # None_ THEN EnvOf(t, f)
                      ELSE ArgOf(t, f)]_vars

C17_Witness ==
    /\ pc[1] = "check_config"
    /\ entry[1] = ForAPIKey
    /\ frame[1].args = [model_type |-> "yandexgpt", catalog_id |-> "cat1", credential |-> "x1"]
    /\ environ.YANDEX_GPT_MODEL_TYPE = "yandexgpt-lite"
    /\ environ.YANDEX_GPT_API_KEY = "k2"
    /\ config_manager.model_type = "yandexgpt-lite"
    /\ config_manager.api_key = "k2"

\* C18: the token exchange issues one POST whose body carries the signed
\* assertion; answered HTTP 200 the manager's iam_token becomes the iamToken field
\* of the answer; answered with any other status the exchange raises an error
\* with the status code and the text of the answer, the constructor ends with it,
\* no token is set, and no second POST is issued.
C18_TokenExchange ==
    [][\A t \in Tasks :
          entry[t] \in IamManagers =>
              /\ obs'[t].posts <= 1
              /\ obs'[t].posts > obs[t].posts =>
                    /\ obs'[t].post_jwt =
                          [kid |-> environ.YANDEX_GPT_SERVICE_ACCOUNT_KEY_ID,
                           aud |-> obs'[t].post_url,
                           iss |-> environ.YANDEX_GPT_SERVICE_ACCOUNT_ID,
                           iat |-> clock, exp |-> clock + 360]
                    /\ obs'[t].post_url =
                          IF environ.YANDEX_GPT_IAM_URL = None_
                          THEN "https://iam.api.cloud.yandex.net/iam/v1/tokens"
                          ELSE environ.YANDEX_GPT_IAM_URL
                    /\ ~NonEmpty(config_manager.iam_token)
              /\ (pc[t] = "iam_post_wait" /\ pc'[t] # "iam_post_wait"
                     /\ obs'[t].resp.exc = NoExc) =>
                    LET r == obs'[t].resp
                    IN  IF r.status = 200 /\ r.body.iamToken # None_
                        THEN /\ config_manager'.iam_token = r.body.iamToken
                             /\ pc'[t] = "check_config"
                        ELSE /\ pc'[t] = "ready"
                             /\ returned'[t] = NoReturn
                             /\ ~NonEmpty(config_manager'.iam_token)
                             /\ obs'[t].posts = 1
                             /\ r.status # 200 =>
                                   raised'[t] =
                                      [type |-> "Exception",
                                       msg |-> "Failed to get IAM token. Status code: "
                                                  \o ToString(r.status) \o "\n" \o r.body.text]]_vars

C18_Witness ==
    /\ pc[1] = "ready"
    /\ obs[1].posts = 1
    /\ obs[1].resp.status = 500
    /\ raised[1].msg = "Failed to get IAM token. Status code: 500\ndenied"
    /\ returned[1] = NoReturn
    /\ config_manager.iam_token = None_

-----------------------------------------------------------------------------
(* Properties of the poll loop's deadline and failures (SpecPoll) *)

\* The deadline of the poll under way, as an observer computes it.
Deadline(t) == obs[t].t0 + obs[t].timeout

\* C19: the deadline is tested at the head of each iteration, before the GET, and
\* strictly: an iteration begun with now <= deadline goes on to its GET (the first
\* one always, even with timeout 0), nothing but the GET follows, and a done answer
\* to it is returned however late it comes; TimeoutError is raised only by the test
\* at the head of an iteration, with now > deadline, never after a GET.
C19_CheckBeforeGet ==
    [][\A t \in Tasks :
          entry[t] = "poll_async_completion" =>
              /\ (pc[t] = "poll_check" /\ pc'[t] # "poll_check") =>
                    IF clock <= Deadline(t)
                    THEN pc'[t] = "poll_get" /\ raised'[t] = NoExc
                    ELSE pc'[t] = "ready" /\ raised'[t].type = "TimeoutError"
              /\ (pc[t] = "poll_check" /\ obs[t].gets = 0 /\ clock = obs[t].t0
                     /\ pc'[t] # "poll_check") => pc'[t] = "poll_get"
              /\ (pc[t] = "poll_get" /\ pc'[t] # "poll_get") =>
                    pc'[t] = "poll_wait" /\ obs'[t].gets = obs[t].gets + 1
              /\ (pc[t] = "poll_wait" /\ pc'[t] # "poll_wait" /\ obs'[t].resp.exc = NoExc
                     /\ obs'[t].resp.status = 200 /\ obs'[t].resp.body.done) =>
                    /\ pc'[t] = "ready"
                    /\ raised'[t] = NoExc
                    /\ returned'[t].body = obs'[t].resp.body
              /\ (raised'[t].type = "TimeoutError" /\ raised[t].type # "TimeoutError") =>
                    pc[t] = "poll_check" /\ clock > Deadline(t)]_vars

C19_Witness ==
    /\ PollReturned
    /\ obs[1].timeout = 0
    /\ obs[1].gets = 1
    /\ clock > obs[1].t0 + obs[1].timeout
    /\ returned[1].body.done

\* C20: a non-200 answer to a poll GET ends poll_async_completion at once with the
\* failure "Failed to poll operation status, status code: <code>": no wait begins,
\* no further GET is issued, and the failure is not a TimeoutError, whatever time
\* is left before the deadline.
C20_PollFailsAtOnce ==
    [][\A t \in Tasks :
          (entry[t] = "poll_async_completion" /\ pc[t] = "poll_wait" /\ pc'[t] # "poll_wait"
              /\ obs'[t].resp.exc = NoExc /\ obs'[t].resp.status # 200) =>
                /\ pc'[t] = "ready"
                /\ raised'[t] = [type |-> "Exception",
                                 msg |-> "Failed to poll operation status, status code: "
                                            \o ToString(obs'[t].resp.status)]
                /\ returned'[t] = NoReturn
                /\ obs'[t].sleeps = obs[t].sleeps
                /\ obs'[t].gets = obs[t].gets
                /\ obs'[t].notdone = obs[t].notdone]_vars

C20_Witness ==
    /\ PollFailed
    /\ raised[1].msg = "Failed to poll operation status, status code: 500"
    /\ obs[1].gets = 2
    /\ obs[1].sleeps = 1
    /\ clock < obs[1].t0 + obs[1].timeout

-----------------------------------------------------------------------------
(* Requests issued by a run (Spec) *)

\* Headers and payload can be built from the identity the client holds.
RequestBuildable ==
    /\ NonEmpty(config_manager.iam_token) \/ NonEmpty(config_manager.api_key)
    /\ NonEmpty(config_manager.catalog_id)
    /\ SupportedModel

\* C21: a run that passed the guard issues at most one completion POST, and
\* exactly one when headers and payload can be built, whether the POST succeeds or
\* fails; an asynchronous run polls only after its one submit and every GET of the
\* run carries the one operation id; a synchronous run issues no GET.
C21_OneRequestPerRun ==
    [][\A t \in Tasks :
          InRun(t) =>
              /\ obs'[t].posts <= 1
              /\ obs'[t].gets > 0 => obs'[t].posts = 1 /\ entry[t] = "run_async"
              /\ (obs[t].get_id # None_ /\ pc'[t] # "ready") => obs'[t].get_id = obs[t].get_id
              /\ RunReturns(t) =>
                    obs[t].posts = IF RequestBuildable THEN 1 ELSE 0]_vars

C21_Witness ==
    /\ pc[1] = "finally"
    /\ entry[1] = "run_sync"
    /\ obs[1].posts = 1
    /\ obs[1].resp.status = 500
    /\ obs[1].failure.msg = "Failed to send sync request, status code: 500"

-----------------------------------------------------------------------------
(* run_sync called from two OS threads on one instance (SpecRace) *)

\* The steps of a synchronous run.
SyncStep(t) ==
    \/ RunGuard(t)
    \/ RunSetRunning(t)
    \/ BuildHeaders(t)
    \/ BuildPayload(t)
    \/ Post(t)
    \/ \E r \in TwoSyncResponses : SyncResponse(t, r)
    \/ Inspect(t)
    \/ RunAppend(t)
    \/ RunExcept(t)
    \/ RunExceptMessage(t)
    \/ RunFinally(t)

\* OS threads are preempted anywhere: between any two statements of one thread the
\* other may take any number of steps.
NextRace ==
    \E t \in Tasks :
        \/ CallRun(t, 1, "run_sync", 0)
        \/ SyncStep(t)

SpecRace == Init /\ [][NextRace]_vars

\* A call is past the guard and has not returned.
PastGuard(t) == InRun(t) /\ pc[t] \notin {"ready", "guard"}

\* C22: the guard is advisory: it reads the status and nothing else, so it lets a
\* call through whenever the status is not "running" at the moment of the check,
\* even while another call on the same instance has passed its own check and has
\* not yet assigned "running"; it rejects exactly when the status reads "running".
C22_GuardReadsStatusOnly ==
    [][\A t \in Tasks :
          (pc[t] = "guard" /\ pc'[t] # "guard") =>
              IF status[self[t]].status = "running"
              THEN pc'[t] = "ready" /\ raised'[t].msg = "Thread is already running"
              ELSE pc'[t] = "set_running"]_vars

\* Both threads passed the guard on the same history, both issued a request and,
\* the second reply about to be appended, the first is already in the history.
C22_Witness ==
    /\ PastGuard(1) /\ PastGuard(2)
    /\ self[1] = self[2]
    /\ obs[1].H0 = obs[2].H0
    /\ obs[1].posts = 1 /\ obs[2].posts = 1
    /\ pc[1] = "finally" /\ pc[2] = "finally"
    /\ obs[1].failure = NoExc /\ obs[2].failure = NoExc
    /\ History(1) = obs[1].H0 \o << [role |-> "assistant", text |-> "hello"],
                                    [role |-> "assistant", text |-> "hello"] >>

-----------------------------------------------------------------------------
(* Validation before the request (SpecClient) *)

CompletionEntries == {"get_sync_completion", "get_async_completion"}

\* C23: in get_sync_completion and get_async_completion headers and payload are
\* built before the POST: a POST is issued only with a credential, a catalog id and
\* a model of the enumerated set, headers and model URI in hand; when the model is
\* not in the set, or the credential or the catalog id is missing, the call fails
\* with a ValueError having issued no POST and no GET.
C23_ValidatedBeforeRequest ==
    [][\A t \in Tasks :
          entry[t] \in CompletionEntries =>
              /\ obs'[t].posts > obs[t].posts =>
                    /\ RequestBuildable
                    /\ frame[t].headers = _create_completion_request_headers(config_manager).value
                    /\ frame[t].modelUri =
                          completion_request_model_type_uri_field(config_manager).value
              /\ (pc[t] # "ready" /\ pc'[t] = "ready" /\ ~RequestBuildable) =>
                    /\ raised'[t].type = "ValueError"
                    /\ returned'[t] = NoReturn
                    /\ obs'[t].posts = 0 /\ obs'[t].gets = 0]_vars

C23_Witness ==
    /\ pc[1] = "ready"
    /\ config_manager.model_type = "gpt-4"
    /\ NonEmpty(config_manager.catalog_id) /\ ~NoCredential
    /\ raised[1].type = "ValueError"
    /\ raised[1].msg = "Model type gpt-4 is not supported. Supported values: " \o available_models_repr
    /\ obs[1].posts = 0 /\ obs[1].gets = 0

-----------------------------------------------------------------------------
(* The body the poller returns (Spec) *)

\* The step of run_async in which get_async_completion inspects the polled body.
InspectsPolled(t) == entry[t] = "run_async" /\ pc[t] = "inspect" /\ pc'[t] # "inspect"

\* C24: on the asynchronous path the body the poller returned (a done body) is
\* inspected for its error field before any text is extracted: with a populated
\* error field get_async_completion fails with "Failed to get completion: <error>",
\* even when the body carries a text as well, and the run returns with the history
\* it began with; only a done body without error yields the text at
\* response.alternatives[0].message.text, which the run appends.
C24_ErrorBeforeText ==
    [][\A t \in Tasks :
          /\ InspectsPolled(t) =>
                LET b == frame[t].completion_response
                IN  /\ b = obs[t].resp.body /\ b.done
                    /\ IF b.error \notin {None_, ""}
                       THEN /\ pc'[t] = "except"
                            /\ obs'[t].failure =
                                  Exc("Exception", "Failed to get completion: " \o b.error)
                            /\ frame'[t].completion_text = None_
                       ELSE IF b.response # None_
                       THEN /\ pc'[t] = "append"
                            /\ frame'[t].completion_text = b.response
                            /\ obs'[t].failure = NoExc
                       ELSE pc'[t] = "except" /\ obs'[t].failure.type = "KeyError"
          /\ (entry[t] = "run_async" /\ RunReturns(t) /\ obs[t].gets > 0
                 /\ obs[t].resp.exc = NoExc /\ obs[t].resp.status = 200
                 /\ obs[t].resp.body.done /\ obs[t].resp.body.error \notin {None_, ""}) =>
                HistoryAfter(self[t]) = obs[t].H0]_vars

C24_Witness ==
    /\ entry[1] = "run_async"
    /\ pc[1] = "finally"
    /\ obs[1].resp.body.done
    /\ obs[1].resp.body.error = "quota"
    /\ obs[1].resp.body.response = "hello"
    /\ obs[1].failure = Exc("Exception", "Failed to get completion: quota")
    /\ History(1) = obs[1].H0

-----------------------------------------------------------------------------
(* last_error_message (Spec) *)

\* The step in which the run of task t records the description of its failure.
RecordsFailure(t) == InRun(t) /\ pc[t] = "except_message" /\ pc'[t] = "finally"

\* C25: last_error_message is None at construction, is written only by a failing
\* run, which sets it to the description of its failure, and is never reset: it
\* is non-null exactly when some earlier run on the instance failed.  A failed run
\* returns with its own description recorded; a successful run returns with
\* status "idle" and the message it found.
C25_LastErrorKept ==
    /\ \A th \in Threads : status[th].last_error_message = None_
    /\ [][/\ \A th \in Threads :
               status'[th].last_error_message # status[th].last_error_message =>
                   \E t \in Tasks :
                       /\ self[t] = th /\ RecordsFailure(t)
                       /\ obs[t].failure # NoExc
                       /\ status'[th].last_error_message = obs[t].failure.msg
                       /\ status'[th].last_error_message # None_
          /\ \A t \in Tasks :
               /\ RecordsFailure(t) =>
                     status'[self[t]].last_error_message = obs[t].failure.msg
               /\ RunReturns(t) =>
                     /\ status'[self[t]].status = "idle"
                     /\ status'[self[t]].last_error_message = status[self[t]].last_error_message
                     /\ obs[t].failure # NoExc =>
                           status'[self[t]].last_error_message = obs[t].failure.msg]_vars

\* A run after a failed one succeeded; the old description is still there.
C25_Witness ==
    /\ pc[1] = "finally"
    /\ obs[1].failure = NoExc
    /\ obs[1].posts = 1
    /\ History(1) = Append(obs[1].H0, [role |-> "assistant", text |-> "hello"])
    /\ status[1].last_error_message = "Failed to send sync request, status code: 500"

-----------------------------------------------------------------------------
(* The guard among cooperative tasks (SpecCoop) *)

\* The call of task t is suspended inside run_async: in the submit, in a poll or in
\* the one-second wait.
SuspendedInRun(t) ==
    /\ entry[t] = "run_async"
    /\ pc[t] \in {"post_wait", "poll_wait", "sleeping"}

\* The step in which the guard of the call of task t decides.
GuardDecides(t) == InRun(t) /\ pc[t] = "guard" /\ pc'[t] # "guard"

\* C26: among cooperatively scheduled tasks calling run on one instance at most
\* one run is past the guard at any time, the status reads "running" while one is,
\* and every run whose guard decides while another run is past its guard
\* (suspended in submit, poll or wait) is rejected with "Thread is already running"
\* and leaves history and status as they are.
C26_OneRunAtATime ==
    /\ [](\A t, u \in Tasks : (PastGuard(t) /\ PastGuard(u) /\ self[t] = self[u]) => t = u)
    /\ [][\A t \in Tasks :
             (GuardDecides(t) /\ \E u \in Tasks \ {t} : PastGuard(u) /\ self[u] = self[t]) =>
                 /\ \E u \in Tasks \ {t} : SuspendedInRun(u)
                 /\ status[self[t]].status = "running"
                 /\ pc'[t] = "ready"
                 /\ raised'[t] = Exc("Exception", "Thread is already running")
                 /\ status' = status /\ lists' = lists]_vars

C26_Witness ==
    /\ SuspendedInRun(1) /\ pc[1] = "sleeping"
    /\ status[1].status = "running"
    /\ pc[2] = "ready"
    /\ raised[2] = Exc("Exception", "Thread is already running")

-----------------------------------------------------------------------------
(* Cancellation of a task inside run_async (SpecCancel) *)

\* asyncio.CancelledError; str() of it is the empty string.
CancelledError == Exc("CancelledError", "")

\* (mutant) the cancelled call is torn down without running its finally clause
Cancel_without_finally(t) ==
    /\ SuspendedInRun(t)
    /\ \A u \in Tasks \ {t} : Suspended(u)
    /\ Propagate(t, CancelledError, EmptyObs)
    /\ UNCHANGED <<environ, config_manager, lists, messages, status, clock, self>>

\* The task is cancelled while its run_async is suspended at an await: the event
\* loop resumes it by raising CancelledError there.  From Python 3.8 on
\* CancelledError derives from BaseException, passes `except Exception`
\* (thread.py 143) and reaches the finally clause on its way out; under Python 3.6
\* and 3.7, which setup.py admits, it derives from Exception and is handled by the
\* except branch like any failure.
Cancel(t) ==
    /\ SuspendedInRun(t)
    /\ \A u \in Tasks \ {t} : Suspended(u)
    /\ \/ Goto(t, "finally_cancelled", [EmptyFrame EXCEPT !.e = CancelledError],
               [obs[t] EXCEPT !.failure = CancelledError])
       \/ Throw(t, CancelledError, obs[t])
    /\ UNCHANGED <<environ, config_manager, lists, messages, status, clock, self>>

\* thread.py 147 with an exception in flight: the finally clause sets "idle" and
\* the exception goes on to the caller.
RunFinallyCancelled(t) ==
    /\ pc[t] = "finally_cancelled"
    /\ status' = [status EXCEPT ![self[t]].status = "idle"]
    /\ Propagate(t, frame[t].e, EmptyObs)
    /\ UNCHANGED <<environ, config_manager, lists, messages, clock, self>>

\* Two tasks of one event loop call run_async and run_sync on one instance; a task
\* inside run_async can be cancelled at any of its awaits.
NextCancel ==
    \/ \E t \in Tasks :
          /\ \A u \in Tasks \ {t} : Suspended(u)
          /\ \/ /\ t = 1 \/ pc[1] # "ready"
                /\ \/ \E timeout \in 0..MaxRunTimeout : CallRun(t, 1, "run_async", timeout)
                   \/ CallRun(t, 1, "run_sync", 0)
             \/ Step(t)
             \/ RunFinallyCancelled(t)
    \/ \E t \in Tasks : Cancel(t)
    \/ Tick(MaxRunClock)

SpecCancel == Init /\ [][NextCancel]_vars

\* The runs on instance th that passed the guard and have not exited.
RunsPastGuard(th) == {t \in Tasks : PastGuard(t) /\ self[t] = th}

\* C27: with a single caller or cooperatively scheduled tasks the status is
\* "running" exactly while a run that passed the guard has not exited, as far as
\* any caller or other task can see (at the awaits of the run and between calls);
\* inside the run, with no task switch possible, the status is not yet "running"
\* before the assignment and is "error" in the except branch.  Whenever no run is
\* in progress the status is "created" or "idle", and every exit of a run (success,
\* absorbed failure, cancellation at an await) leaves "idle".
C27_RunningWhileInRun ==
    /\ [](\A th \in Threads :
             /\ RunsPastGuard(th) = {} => status[th].status \in {"created", "idle"}
             /\ \A t \in RunsPastGuard(th) :
                   \/ status[th].status = "running"
                   \/ pc[t] = "set_running"
                   \/ status[th].status = "error" /\ pc[t] \in {"except_message", "finally"}
             /\ (\A u \in Tasks : Suspended(u)) =>
                   (status[th].status = "running" <=> RunsPastGuard(th) # {}))
    /\ [][\A t \in Tasks :
             (PastGuard(t) /\ pc'[t] = "ready") => status'[self[t]].status = "idle"]_vars

\* A run cancelled at an await has left: the status is "idle".
C27_Witness ==
    /\ pc[1] = "ready"
    /\ raised[1] = CancelledError
    /\ RunsPastGuard(1) = {}
    /\ status[1].status = "idle"

-----------------------------------------------------------------------------
(* add_message while a run_async is in flight (SpecCoop) *)

IsPrefix(p, q) == Len(p) <= Len(q) /\ SubSeq(q, 1, Len(p)) = p

\* C28: the request of a run_async is built and sent from the history H the run
\* began with; messages another task adds while the run is suspended go to the
\* end of the history, and the reply, generated for H, is appended after them:
\* the history on return is H, then the interleaved messages in the order they
\* were added, then the assistant reply.  No step removes or reorders a message.
C28_ReplyAfterInterleaved ==
    [][/\ \A th \in Threads : IsPrefix(History(th), HistoryAfter(th))
       /\ \A t \in Tasks :
            entry[t] = "run_async" =>
                /\ (pc[t] = "post" /\ pc'[t] = "post_wait") => History(self[t]) = obs[t].H0
                /\ (pc[t] = "append" /\ pc'[t] = "finally") =>
                      /\ IsPrefix(obs[t].H0, History(self[t]))
                      /\ \A i \in (Len(obs[t].H0) + 1)..Len(History(self[t])) :
                            History(self[t])[i] = [role |-> "user", text |-> "hi"]
                      /\ frame[t].completion_text = obs[t].resp.body.response
                      /\ HistoryAfter(self[t]) =
                            Append(History(self[t]),
                                   [role |-> "assistant", text |-> obs[t].resp.body.response])]_vars

C28_Witness ==
    /\ entry[1] = "run_async"
    /\ pc[1] = "finally"
    /\ obs[1].gets > 0
    /\ pc[2] = "ready"
    /\ obs[1].H0 = << [role |-> "user", text |-> "hi"] >>
    /\ History(1) = << [role |-> "user", text |-> "hi"], [role |-> "user", text |-> "hi"],
                       [role |-> "assistant", text |-> "hello"] >>

-----------------------------------------------------------------------------
(* Termination of run_async (SpecAsyncLive) *)

\* The steps of an asynchronous run.
AsyncStep(t) ==
    \/ RunGuard(t)
    \/ RunSetRunning(t)
    \/ BuildHeaders(t)
    \/ BuildPayload(t)
    \/ Post(t)
    \/ \E r \in SubmitResponses : SubmitResponse(t, r)
    \/ PollStart(t)
    \/ PollCheck(t)
    \/ PollGet(t)
    \/ \E r \in PollResponses : PollResponse(t, r)
    \/ PollWake(t)
    \/ Inspect(t)
    \/ RunAppend(t)
    \/ RunExcept(t)
    \/ RunExceptMessage(t)
    \/ RunFinally(t)

NextAsyncLive ==
    \/ \E timeout \in 0..MaxRunTimeout : CallRun(1, 1, "run_async", timeout)
    \/ AsyncStep(1)
    \/ Tick(MaxRunClock)

\* The code takes its next step, every HTTP call is answered, and the clock advances.
SpecAsyncLive ==
    Init /\ [][NextAsyncLive]_vars /\ WF_vars(AsyncStep(1)) /\ WF_vars(Tick(MaxRunClock))

\* C29: provided every HTTP call is answered and the clock advances with each
\* wait, every run_async that passes the guard eventually returns with the status
\* "idle" and the poll loop does not run forever: it is left only on a done
\* answer, on an answer that is not a 200 (or a failed GET), or by the deadline
\* check, and no iteration goes on to a GET once the deadline has passed.
C29_RunAsyncReturns ==
    /\ \A t \in Tasks :
          (entry[t] = "run_async" /\ pc[t] = "set_running")
              ~> (pc[t] = "ready" /\ entry[t] = "none" /\ status[self[t]].status = "idle")
    /\ \A t \in Tasks :
          (entry[t] = "run_async" /\ pc[t] \in PollPcs)
              ~> (entry[t] = "run_async" /\ pc[t] \in {"inspect", "except"})
    /\ [][\A t \in Tasks :
             entry[t] = "run_async" =>
                 /\ (pc[t] = "poll_check" /\ pc'[t] = "poll_get") => clock <= Deadline(t)
                 /\ (pc[t] \in PollPcs /\ pc'[t] \notin PollPcs) =>
                       \/ /\ pc[t] = "poll_wait" /\ pc'[t] = "inspect"
                          /\ obs'[t].resp.status = 200 /\ obs'[t].resp.body.done
                       \/ /\ pc[t] = "poll_wait" /\ pc'[t] = "except"
                          /\ obs'[t].resp.exc # NoExc \/ obs'[t].resp.status # 200
                       \/ /\ pc[t] = "poll_check" /\ pc'[t] = "except"
                          /\ clock > Deadline(t)
                          /\ obs'[t].failure.type = "TimeoutError"]_vars

\* A run whose poll loop was ended by the deadline check is about to return.
C29_Witness ==
    /\ entry[1] = "run_async"
    /\ pc[1] = "finally"
    /\ obs[1].gets > 0 /\ obs[1].sleeps > 0
    /\ obs[1].failure.type = "TimeoutError"
    /\ status[1].status = "error"

-----------------------------------------------------------------------------
(* The precondition of the token exchange (SpecCtor) *)

\* The environment variable the manager of task t takes its private key from.
KeyVariable(t) ==
    IF entry[t] = ForIAMTokenWithBase64Key THEN environ.YANDEX_GPT_PRIVATE_KEY_BASE64
    ELSE environ.YANDEX_GPT_PRIVATE_KEY

\* One of the four environment variables the exchange needs is absent or empty.
ExchangeVariableMissing(t) ==
    \/ ~NonEmpty(environ.YANDEX_GPT_SERVICE_ACCOUNT_ID)
    \/ ~NonEmpty(environ.YANDEX_GPT_SERVICE_ACCOUNT_KEY_ID)
    \/ ~NonEmpty(environ.YANDEX_GPT_CATALOG_ID)
    \/ ~NonEmpty(KeyVariable(t))

\* C30: in the IAM token managers the token exchange is entered exactly when the
\* manager holds no IAM token after the constructor's argument and the environment
\* were taken; the exchange reads service account id, key id, private key and
\* catalog id from the environment only: when one of these variables is missing the
\* construction fails with "One or more environment variables for IAM token
\* generation are missing." and no POST was issued, whatever catalog id the
\* constructor was given; a POST is issued only with all four present.
C30_ExchangePrecondition ==
    [][\A t \in Tasks :
          entry[t] \in IamManagers =>
              /\ ConfigSet(t) =>
                    /\ pc'[t] \in {"iam_env", "check_config"}
                    /\ pc'[t] = "iam_env" <=> ~NonEmpty(config_manager'.iam_token)
              /\ (pc[t] = "iam_env" /\ pc'[t] # "iam_env" /\ ExchangeVariableMissing(t)) =>
                    /\ pc'[t] = "ready"
                    /\ returned'[t] = NoReturn
                    /\ raised'[t] = Exc("ValueError",
                          "One or more environment variables for IAM token generation are missing.")
                    /\ obs'[t].posts = 0
              /\ pc'[t] \in {"iam_post", "iam_post_wait"} =>
                    /\ ~ExchangeVariableMissing(t)
                    /\ ~NonEmpty(config_manager.iam_token)]_vars

\* The constructor was given a catalog id, the environment holds everything the
\* exchange needs but the catalog id: the construction failed without a POST.
C30_Witness ==
    /\ pc[1] = "ready"
    /\ raised[1] = Exc("ValueError",
          "One or more environment variables for IAM token generation are missing.")
    /\ config_manager.catalog_id = "cat1"
    /\ config_manager.model_type = "yandexgpt"
    /\ environ.YANDEX_GPT_CATALOG_ID = None_
    /\ environ.YANDEX_GPT_SERVICE_ACCOUNT_ID = "sa1"
    /\ environ.YANDEX_GPT_SERVICE_ACCOUNT_KEY_ID = "kid1"
    /\ environ.YANDEX_GPT_PRIVATE_KEY = "pem"
    /\ environ.YANDEX_GPT_PRIVATE_KEY_BASE64 = "cGVt"
    /\ obs[1].posts = 0

====
